---- MODULE Spec2Model ----
(***************************************************************************)
(* Slackline streak tracker (src/src/slackline/streaks.py).                *)
(*                                                                         *)
(* The store is the four SQLite relations of StreakTracker: posts,         *)
(* streaks, tracked_channels and the tracking_mode setting, as the         *)
(* tracker's one connection sees them.  Dates are day numbers since        *)
(* 1970-01-01 (a Thursday); the TEXT columns hold ISO dates, modelled as   *)
(* <<year, month, day>>, and NULL is <<>>.                                 *)
(*                                                                         *)
(* Nine specifications share the translation of the methods of the         *)
(* tracker and of the bot (src/src/slackline/bot.py):                      *)
(*   Spec            every public mutating method is one step (a method    *)
(*                   holds the RLock from its first statement to its       *)
(*                   commit), on a store that starts empty;                *)
(*   PolicySpec      the same steps with the messages of one user, while   *)
(*                   the tracking policy changes;                          *)
(*   HistorySpec     the same steps of record_message on a database that   *)
(*                   already holds a long streak;                          *)
(*   MilestoneSpec   record_message on a database that holds a streak of   *)
(*                   any length up to the last milestone;                  *)
(*   ConcurrentSpec  two threads call the methods, one statement per step, *)
(*                   with the RLock, the transaction, failures and a       *)
(*                   crash of the process;                                 *)
(*   LiveSpec        the threads of ConcurrentSpec without the crash, each *)
(*                   scheduled fairly;                                     *)
(*   QuerySpec       the threads with get_user_streak and leaderboard,     *)
(*                   which read the connection without the RLock;          *)
(*   BotSpec         the message handler and the slash command of the bot  *)
(*                   on top of the tracker;                                *)
(*   ScopeSpec       SlacklineApp._verify_scopes on the responses of       *)
(*                   apps.auth.scopes.list.                                *)
(***************************************************************************)
EXTENDS Integers, Sequences, FiniteSets, TLC

\* ------------------------------------------------------------------ bounds
\* The calls of a run add at most MaxPosts rows to the posts table.
MaxPosts == 3

\* The streak lengths the milestone text is computed for: 0..MaxStreakLength.
MaxStreakLength == 731

\* The lists of scopes in a response of Slack have at most MaxScopeList items.
MaxScopeList == 2

\* ------------------------------------------------------------------ inputs
Channels == {"C1", "C2"}
Users == {"U1", "U2"}
Pairs == Channels \X Users

\* The UTC days messages arrive on, as days since the epoch: Friday
\* 1970-01-02, the weekend after it and Monday 1970-01-05.
Days == {1, 2, 3, 4}

\* Two instants per day: the first and the last second of the UTC day.
Instants == {d * 86400 + s : d \in Days, s \in {0, 86399}}

\* What datetime.now() may read when no timestamp is given: noon of a day.
ClockInstants == {d * 86400 + 43200 : d \in Days}

\* timestamp: Optional[str | float | int].  For None, secs is the instant
\* datetime.now() reads during the call.
Timestamps ==
    {[kind |-> "number", secs |-> t] : t \in Instants}
        \cup {[kind |-> "none", secs |-> t] : t \in ClockInstants}
        \cup {[kind |-> "malformed", secs |-> 0]}

\* Tracking modes a caller may pass, one of them invalid.
ModeInputs == {"all", "limited", "some"}

\* StreakConfig values the tracker is constructed with.
Configs ==
    { [off_days |-> {}, timezone |-> "UTC"],
      [off_days |-> {5, 6}, timezone |-> "UTC"],
      [off_days |-> {6}, timezone |-> "America/New_York"],
      [off_days |-> 0..6, timezone |-> "UTC"] }

\* The threads that call into the one StreakTracker of the process.
Threads == {"T1", "T2"}

\* self._lock when no thread holds it.
UNLOCKED == "unlocked"

VARIABLES
    config,            \* StreakTracker._config (immutable)
    posts,             \* table posts: set of <<channel_id, user_id, post_date>>
    streaks,           \* table streaks: <<channel_id, user_id>> -> row
    tracking_mode,     \* settings['tracking_mode']
    tracked_channels,  \* table tracked_channels
    threads,           \* per thread: the call it is in and where it stands
    lock,              \* StreakTracker._lock: the thread holding it, or UNLOCKED
    journal            \* the open transaction's rollback image, or NULL

vars ==
    << config, posts, streaks, tracking_mode, tracked_channels,
       threads, lock, journal >>

\* The variables a method that runs as one step leaves alone.
calls == <<threads, lock, journal>>

TRACKING_MODE_ALL == "all"
TRACKING_MODE_LIMITED == "limited"

MILESTONES == {7, 14, 30, 60, 90, 180, 365, 730}

NULL == <<>>

\* ------------------------------------------------------------ date algebra
\* date.isoformat(): the civil date of a day number, proleptic Gregorian.
isoformat(n) ==
    LET z == n + 719468
        era == z \div 146097
        doe == z - era * 146097
        yoe == (doe - doe \div 1460 + doe \div 36524 - doe \div 146096) \div 365
        doy == doe - (365 * yoe + yoe \div 4 - yoe \div 100)
        mp == (5 * doy + 2) \div 153
        d == doy - (153 * mp + 2) \div 5 + 1
        m == IF mp < 10 THEN mp + 3 ELSE mp - 9
        y == yoe + era * 400 + (IF m <= 2 THEN 1 ELSE 0)
    IN  <<y, m, d>>

\* date.fromisoformat(): the day number of a civil date.
fromisoformat(iso) ==
    LET y == iso[1] - (IF iso[2] <= 2 THEN 1 ELSE 0)
        era == y \div 400
        yoe == y - era * 400
        mp == IF iso[2] > 2 THEN iso[2] - 3 ELSE iso[2] + 9
        doy == (153 * mp + 2) \div 5 + iso[3] - 1
        doe == yoe * 365 + yoe \div 4 - yoe \div 100 + doy
    IN  era * 146097 + doe - 719468

\* date.weekday(): 0 = Monday .. 6 = Sunday; day 0 is Thursday 1970-01-01.
weekday_of(n) == (n + 3) % 7

\* ZoneInfo(...).utcoffset in January 1970, in seconds.
utcoffset(timezone) ==
    CASE timezone = "UTC" -> 0
      [] timezone = "America/New_York" -> -18000

\* datetime.fromtimestamp(ts, UTC).astimezone(tz).date()
local_date(secs, timezone) == (secs + utcoffset(timezone)) \div 86400

\* Fault: the day after start is required even when it is an off-day.
next_required_date_no_skip(start) == start + 1

\* Fault: the loop is an if, one off-day at most is skipped.
skip_off_days_once(current, off_days) ==
    IF weekday_of(current) \in off_days
    THEN current + 1
    ELSE current

\* StreakTracker._next_required_date: the unguarded skip-forward loop.
RECURSIVE skip_off_days(_, _)
skip_off_days(current, off_days) ==
    IF weekday_of(current) \in off_days
    THEN skip_off_days(current + 1, off_days)
    ELSE current

next_required_date(start) == skip_off_days(start + 1, config.off_days)

\* ---------------------------------------------------------------- milestones
\* Fault: the year and month rules are missing, every period is in weeks.
format_streak_weeks_only(days) ==
    LET plural(k) == IF k # 1 THEN "s" ELSE ""
    IN  ToString(days \div 7) \o " week" \o plural(days \div 7)

\* StreakTracker._format_streak
format_streak(days) ==
    LET plural(k) == IF k # 1 THEN "s" ELSE ""
    IN  IF days % 365 = 0
        THEN ToString(days \div 365) \o " year" \o plural(days \div 365)
        ELSE IF days % 30 = 0 /\ days >= 30
        THEN ToString(days \div 30) \o " month" \o plural(days \div 30)
        ELSE ToString(days \div 7) \o " week" \o plural(days \div 7)

\* StreakTracker._milestone_message: None is <<>>, a message is <<text>>.
milestone_message(user_id, streak_length) ==
    IF streak_length \in MILESTONES
    THEN << ":tada: <@" \o user_id \o "> just hit a "
              \o format_streak(streak_length) \o " streak!" >>
    ELSE NULL

\* ------------------------------------------------------------------ results
RecordResult(channel_id, user_id, streak_length, message, is_new_day, counted) ==
    [ channel_id |-> channel_id,
      user_id |-> user_id,
      streak_length |-> streak_length,
      milestone_message |-> message,
      is_new_day |-> is_new_day,
      counted_toward_streak |-> counted ]

\* What a call does to the store and what it hands back to its caller.
Outcome(new_posts, new_streaks, new_mode, new_tracked, result) ==
    [ posts |-> new_posts,
      streaks |-> new_streaks,
      tracking_mode |-> new_mode,
      tracked_channels |-> new_tracked,
      result |-> result ]

Returned(value) == [returned |-> value]
Raised(error) == [raised |-> error]

\* ---------------------------------------------------------------- the store
StreakRow(current, longest, start, last, longest_start, longest_end) ==
    [ current_streak |-> current,
      longest_streak |-> longest,
      streak_start_date |-> start,
      last_counted_date |-> last,
      longest_streak_start |-> longest_start,
      longest_streak_end |-> longest_end ]

\* Fault: the WHERE clause names the channel only, every row of the channel
\* is written.
upsert_streak_whole_channel(pair, row) ==
    [p \in DOMAIN streaks \cup {pair} |->
        IF p[1] = pair[1] THEN row ELSE streaks[p]]

\* INSERT / UPDATE of the one streaks row of (channel_id, user_id).
upsert_streak(pair, row) ==
    [p \in DOMAIN streaks \cup {pair} |-> IF p = pair THEN row ELSE streaks[p]]

\* The local dates a call can carry under each configuration.
CallDatesOf ==
    [ cf \in Configs |->
        {local_date(ts.secs, cf.timezone) :
            ts \in {t \in Timestamps : t.kind # "malformed"}} ]

\* The local dates a call can carry under the tracker's configuration.
CallDates == CallDatesOf[config]

\* The rows the calls of a run can add to the posts table.
CallPostsOf ==
    [ cf \in Configs |->
        {<<c, u, isoformat(d)>> :
            c \in Channels, u \in Users, d \in CallDatesOf[cf]} ]

CallPosts == CallPostsOf[config]

\* A thread that is in no call of the tracker.
IdleThread ==
    [ pc |-> "idle",
      alive |-> TRUE,
      call |-> NULL,
      message_date |-> NULL,
      inserted |-> 0,
      result |-> NULL,
      expected |-> NULL ]

\* The schema _initialise creates: the columns of the four tables.
TypeOK ==
    /\ config \in Configs
    /\ \A p \in posts : p[1] \in Channels /\ p[2] \in Users /\ Len(p[3]) = 3
    /\ DOMAIN streaks \subseteq Pairs
    /\ \A p \in DOMAIN streaks :
           /\ DOMAIN streaks[p] =
                  { "current_streak", "longest_streak", "streak_start_date",
                    "last_counted_date", "longest_streak_start",
                    "longest_streak_end" }
           /\ streaks[p].current_streak \in Int
           /\ streaks[p].longest_streak \in Int
    /\ tracking_mode \in {TRACKING_MODE_ALL, TRACKING_MODE_LIMITED}
    /\ tracked_channels \subseteq Channels
    /\ DOMAIN threads = Threads
    /\ lock \in Threads \cup {UNLOCKED}
    /\ journal # NULL =>
           DOMAIN journal =
               {"posts", "streaks", "tracking_mode", "tracked_channels"}

Init ==
    /\ config \in Configs
    /\ posts = {}
    /\ streaks = <<>>
    /\ tracking_mode = TRACKING_MODE_ALL
    /\ tracked_channels = {}
    /\ threads = [t \in Threads |-> IdleThread]
    /\ lock = UNLOCKED
    /\ journal = NULL

\* ------------------------------------------------------------------ queries
\* The identifiers of the model in the order of SQLite's BINARY collation.
collation == <<"C1", "C2", "U1", "U2", "U3">>

\* a sorts before b in an ascending ORDER BY on a TEXT column.
sorts_before(a, b) ==
    LET position(x) == CHOOSE i \in DOMAIN collation : collation[i] = x
    IN  position(a) < position(b)

\* ORDER BY channel_id: the rows as a list, each row after those that sort
\* before it.
order_by_channel_id(rows) ==
    [ i \in 1..Cardinality(rows) |->
        CHOOSE r \in rows :
            Cardinality({other \in rows : sorts_before(other, r)}) = i - 1 ]

\* ------------------------------------------------- channel tracking (reads)
\* StreakTracker._get_tracking_mode_locked / get_tracking_mode
get_tracking_mode == tracking_mode

\* StreakTracker.tracked_channels, the method: the table as a sorted list.
tracked_channels_list == order_by_channel_id(tracked_channels)

\* Fault: the mode is not consulted, only listed channels are tracked.
is_channel_tracked_listed_only(channel_id) == channel_id \in tracked_channels

\* StreakTracker.is_channel_tracked
is_channel_tracked(channel_id) ==
    IF get_tracking_mode = TRACKING_MODE_ALL
    THEN TRUE
    ELSE channel_id \in tracked_channels

\* StreakTracker.is_tracking_restricted
is_tracking_restricted == get_tracking_mode = TRACKING_MODE_LIMITED

\* -------------------------------------------------------------- leaderboard
\* LIMIT ?: the first limit rows; SQLite takes a negative limit as no limit.
limit_rows(rows, limit) ==
    IF limit < 0 \/ limit >= Len(rows)
    THEN rows
    ELSE SubSeq(rows, 1, limit)

\* Fault: the DESC is missing, the shortest streak comes first.
ranks_before_ascending(a, b) ==
    \/ a[2] < b[2]
    \/ a[2] = b[2] /\ sorts_before(a[1], b[1])

\* ORDER BY current_streak DESC, user_id ASC, on rows <<user_id, current_streak>>.
ranks_before(a, b) ==
    \/ a[2] > b[2]
    \/ a[2] = b[2] /\ sorts_before(a[1], b[1])

\* ORDER BY current_streak DESC, user_id ASC: the rows as a list, each row
\* after those that rank before it.
order_by_streak(rows) ==
    [ i \in 1..Cardinality(rows) |->
        CHOOSE r \in rows :
            Cardinality({other \in rows : ranks_before(other, r)}) = i - 1 ]

\* Lines 491-499: the ordered, limited list of the rows selected.
leaderboard_rows(selected, limit) ==
    limit_rows(order_by_streak(selected), limit)

\* StreakTracker.leaderboard: SELECT user_id, current_streak FROM streaks
\* WHERE channel_id = ?
leaderboard(channel_id, limit) ==
    leaderboard_rows(
        { <<p[2], streaks[p].current_streak>> :
              p \in {q \in DOMAIN streaks : q[1] = channel_id} },
        limit)

\* The same statement run on a given streaks table.
leaderboard_in(table, channel_id, limit) ==
    leaderboard_rows(
        { <<p[2], table[p].current_streak>> :
              p \in {q \in DOMAIN table : q[1] = channel_id} },
        limit)

\* ---------------------------------------------------------- get_user_streak
\* parse in _row_to_user_streak: Optional[date], None as <<>> and a date as
\* the one-element tuple of its day number.
parse(value) == IF value = NULL THEN NULL ELSE <<fromisoformat(value)>>

\* StreakTracker._row_to_user_streak
row_to_user_streak(row) ==
    [ current_streak |-> row.current_streak,
      longest_streak |-> row.longest_streak,
      streak_start_date |-> parse(row.streak_start_date),
      last_counted_date |-> parse(row.last_counted_date),
      longest_streak_start |-> parse(row.longest_streak_start),
      longest_streak_end |-> parse(row.longest_streak_end) ]

\* StreakTracker.get_user_streak run on a given streaks table: None when
\* the pair has no row.
get_user_streak_in(table, channel_id, user_id) ==
    IF <<channel_id, user_id>> \notin DOMAIN table
    THEN NULL
    ELSE row_to_user_streak(table[<<channel_id, user_id>>])

\* StreakTracker.get_user_streak
get_user_streak(channel_id, user_id) ==
    get_user_streak_in(streaks, channel_id, user_id)

\* ------------------------------------------------ channel tracking (writes)
\* Fault: switching to "all" leaves the rows of tracked_channels in place.
set_tracking_mode_outcome_keeps_channels(mode) ==
    IF mode \notin {TRACKING_MODE_ALL, TRACKING_MODE_LIMITED}
    THEN Outcome(posts, streaks, tracking_mode, tracked_channels,
                 Raised("ValueError"))
    ELSE Outcome(posts, streaks, mode, tracked_channels, Returned(NULL))

\* StreakTracker.set_tracking_mode
set_tracking_mode_outcome(mode) ==
    IF mode \notin {TRACKING_MODE_ALL, TRACKING_MODE_LIMITED}
    THEN Outcome(posts, streaks, tracking_mode, tracked_channels,
                 Raised("ValueError"))
    ELSE Outcome(posts, streaks, mode,
                 IF mode = TRACKING_MODE_ALL THEN {} ELSE tracked_channels,
                 Returned(NULL))

\* Fault: the settings upsert is missing, enabling leaves the mode alone.
enable_channel_outcome_keeps_mode(channel_id) ==
    Outcome(posts, streaks, tracking_mode,
            tracked_channels \cup {channel_id},
            Returned(channel_id \notin tracked_channels))

\* StreakTracker.enable_channel
enable_channel_outcome(channel_id) ==
    Outcome(posts, streaks, TRACKING_MODE_LIMITED,
            tracked_channels \cup {channel_id},
            Returned(channel_id \notin tracked_channels))

\* Fault: disabling a channel restricts tracking to the listed channels.
disable_channel_outcome_restricts(channel_id) ==
    Outcome(posts, streaks, TRACKING_MODE_LIMITED,
            tracked_channels \ {channel_id},
            Returned(channel_id \in tracked_channels))

\* Fault: removing the last channel switches the mode back to "all".
disable_channel_outcome_resets_mode(channel_id) ==
    Outcome(posts, streaks,
            IF tracked_channels \ {channel_id} = {}
            THEN TRACKING_MODE_ALL
            ELSE tracking_mode,
            tracked_channels \ {channel_id},
            Returned(channel_id \in tracked_channels))

\* StreakTracker.disable_channel
disable_channel_outcome(channel_id) ==
    Outcome(posts, streaks, tracking_mode,
            tracked_channels \ {channel_id},
            Returned(channel_id \in tracked_channels))

\* Fault: the reset writes the mode but does not clear tracked_channels.
reset_channel_tracking_outcome_keeps_channels ==
    Outcome(posts, streaks, TRACKING_MODE_ALL, tracked_channels,
            Returned(NULL))

\* StreakTracker.reset_channel_tracking
reset_channel_tracking_outcome == set_tracking_mode_outcome(TRACKING_MODE_ALL)

\* ------------------------------------------------------------ record_message
\* Fault: is_new_day left at the dataclass default (True) for a duplicate.
duplicate_result_default_new_day(channel_id, user_id, has_row, weekday) ==
    RecordResult(channel_id, user_id,
                 IF has_row THEN streaks[<<channel_id, user_id>>].current_streak ELSE 0,
                 NULL, TRUE, weekday \notin config.off_days)

\* Lines 271-282: the date already has a post.
duplicate_result(channel_id, user_id, has_row, weekday) ==
    RecordResult(channel_id, user_id,
                 IF has_row THEN streaks[<<channel_id, user_id>>].current_streak ELSE 0,
                 NULL, FALSE, weekday \notin config.off_days)

\* Fault: the off-day branch never inserts the zero row.
off_day_streaks_no_insert(pair, has_row) == streaks

\* Fault: the off-day insert replaces an existing row (INSERT OR REPLACE).
off_day_streaks_replace(pair, has_row) ==
    upsert_streak(pair, StreakRow(0, 0, NULL, NULL, NULL, NULL))

\* Lines 284-300: the streaks table an off-day post leaves behind.
off_day_streaks(pair, has_row) ==
    IF has_row
    THEN streaks
    ELSE upsert_streak(pair, StreakRow(0, 0, NULL, NULL, NULL, NULL))

\* Fault: an off-day post announces the streak the row holds.
off_day_result_announces(channel_id, user_id, has_row) ==
    RecordResult(channel_id, user_id,
                 IF has_row THEN streaks[<<channel_id, user_id>>].current_streak ELSE 0,
                 IF has_row
                 THEN milestone_message(
                          user_id, streaks[<<channel_id, user_id>>].current_streak)
                 ELSE NULL,
                 TRUE, FALSE)

\* Lines 301-310.
off_day_result(channel_id, user_id, has_row) ==
    RecordResult(channel_id, user_id,
                 IF has_row THEN streaks[<<channel_id, user_id>>].current_streak ELSE 0,
                 NULL, TRUE, FALSE)

\* Line 312: no row yet, or a row that never counted a day.
is_fresh_start(pair, has_row) ==
    \/ ~has_row
    \/ streaks[pair].last_counted_date = NULL

\* Fault: the upsert leaves the span of the longest streak unset.
fresh_row_without_span(message_date) ==
    StreakRow(1, 1, isoformat(message_date), isoformat(message_date),
              NULL, NULL)

\* Lines 313-344: the upsert of a streak of one.
fresh_row(message_date) ==
    StreakRow(1, 1, isoformat(message_date), isoformat(message_date),
              isoformat(message_date), isoformat(message_date))

\* Fault: the out-of-order branch is missing, a late day resets the streak.
is_out_of_order_never(message_date, expected_next) == FALSE

\* Fault: the comparison is <=, the expected day itself is out of order.
is_out_of_order_through_expected(message_date, expected_next) ==
    message_date <= expected_next

\* Line 364: an earlier-than-expected day arriving late.
is_out_of_order(message_date, expected_next) == message_date < expected_next

\* Fault: a missed day resets the streak to 0.
new_streak_length_reset_to_zero(streak_row, message_date, expected_next) ==
    IF message_date = expected_next
    THEN streak_row.current_streak + 1
    ELSE 0

\* Fault: a continued streak is not incremented.
new_streak_length_not_incremented(streak_row, message_date, expected_next) ==
    IF message_date = expected_next
    THEN streak_row.current_streak
    ELSE 1

\* Lines 360-361, 379.
new_streak_length(streak_row, message_date, expected_next) ==
    IF message_date = expected_next
    THEN streak_row.current_streak + 1
    ELSE 1

\* Fault: a reset keeps the start date of the broken streak.
new_streak_start_kept_on_reset(streak_row, message_date, expected_next) ==
    IF streak_row.streak_start_date # NULL
    THEN streak_row.streak_start_date
    ELSE isoformat(message_date)

\* Lines 362, 380.
new_streak_start(streak_row, message_date, expected_next) ==
    IF message_date = expected_next
    THEN IF streak_row.streak_start_date # NULL
         THEN streak_row.streak_start_date
         ELSE isoformat(message_date)
    ELSE isoformat(message_date)

\* Fault: longest_streak is never raised.
new_longest_streak_stale(streak_row, streak_length) ==
    streak_row.longest_streak

\* Fault: longest_streak follows current_streak instead of its maximum.
new_longest_streak_follows_current(streak_row, streak_length) ==
    streak_length

\* Line 382.
new_longest_streak(streak_row, streak_length) ==
    IF streak_row.longest_streak >= streak_length
    THEN streak_row.longest_streak
    ELSE streak_length

\* Fault: the span is rewritten when the streak only ties the longest.
new_longest_span_on_tie(streak_row, streak_length, message_date) ==
    IF streak_length >= streak_row.longest_streak
    THEN << IF streak_length > 1
            THEN streak_row.streak_start_date
            ELSE isoformat(message_date),
            isoformat(message_date) >>
    ELSE <<streak_row.longest_streak_start, streak_row.longest_streak_end>>

\* Lines 383-391: <<longest_start, longest_end>>.
new_longest_span(streak_row, streak_length, message_date) ==
    IF streak_length > streak_row.longest_streak
    THEN << IF streak_length > 1
            THEN streak_row.streak_start_date
            ELSE isoformat(message_date),
            isoformat(message_date) >>
    ELSE <<streak_row.longest_streak_start, streak_row.longest_streak_end>>

\* Fault: streak_start_date and last_counted_date bound in the wrong order.
advanced_row_swapped_dates(streak_row, message_date, expected_next) ==
    LET streak_length == new_streak_length(streak_row, message_date, expected_next)
        span == new_longest_span(streak_row, streak_length, message_date)
    IN  StreakRow(streak_length,
                  new_longest_streak(streak_row, streak_length),
                  isoformat(message_date),
                  new_streak_start(streak_row, message_date, expected_next),
                  span[1], span[2])

\* Lines 393-414: the UPDATE of a continued or reset streak.
advanced_row(streak_row, message_date, expected_next) ==
    LET streak_length == new_streak_length(streak_row, message_date, expected_next)
        span == new_longest_span(streak_row, streak_length, message_date)
    IN  StreakRow(streak_length,
                  new_longest_streak(streak_row, streak_length),
                  new_streak_start(streak_row, message_date, expected_next),
                  isoformat(message_date),
                  span[1], span[2])

\* Lines 264-424 of record_message: what follows the INSERT OR IGNORE into
\* posts, whose rowcount is inserted.
record_after_insert(channel_id, user_id, message_date, inserted) ==
    LET weekday == weekday_of(message_date)
        pair == <<channel_id, user_id>>
        post == <<channel_id, user_id, isoformat(message_date)>>
        has_row == pair \in DOMAIN streaks
        done(new_streaks, result) ==
            Outcome(posts \cup {post}, new_streaks, tracking_mode,
                    tracked_channels, result)
    IN  IF inserted = 0
        THEN done(streaks, duplicate_result(channel_id, user_id, has_row, weekday))
        ELSE IF weekday \in config.off_days
        THEN done(off_day_streaks(pair, has_row),
                  off_day_result(channel_id, user_id, has_row))
        ELSE IF is_fresh_start(pair, has_row)
        THEN done(upsert_streak(pair, fresh_row(message_date)),
                  RecordResult(channel_id, user_id, 1,
                               milestone_message(user_id, 1), TRUE, TRUE))
        ELSE
        LET streak_row == streaks[pair]
            last_counted == fromisoformat(streak_row.last_counted_date)
            expected_next == next_required_date(last_counted)
            row == advanced_row(streak_row, message_date, expected_next)
        IN  IF message_date # expected_next
               /\ is_out_of_order(message_date, expected_next)
            THEN done(streaks,
                      RecordResult(channel_id, user_id, streak_row.current_streak,
                                   NULL, TRUE, FALSE))
            ELSE done(upsert_streak(pair, row),
                      RecordResult(channel_id, user_id, row.current_streak,
                                   milestone_message(user_id, row.current_streak),
                                   TRUE, TRUE))

\* Fault: the engine gates on the tracking policy, a message in a channel
\* that is not tracked is dropped.
record_on_date_gated(channel_id, user_id, message_date) ==
    LET post == <<channel_id, user_id, isoformat(message_date)>>
    IN  IF ~is_channel_tracked(channel_id)
        THEN Outcome(posts, streaks, tracking_mode, tracked_channels,
                     RecordResult(channel_id, user_id, 0, NULL, FALSE, FALSE))
        ELSE record_after_insert(channel_id, user_id, message_date,
                                 IF post \in posts THEN 0 ELSE 1)

\* Lines 253-424 of record_message: the transaction, once the message's
\* local date is known.
record_on_date(channel_id, user_id, message_date) ==
    LET post == <<channel_id, user_id, isoformat(message_date)>>
    IN  record_after_insert(channel_id, user_id, message_date,
                            IF post \in posts THEN 0 ELSE 1)

\* Lines 243-251 of record_message: float(timestamp) raises on a malformed
\* value, before the lock is taken.
record_message_outcome(channel_id, user_id, timestamp) ==
    IF timestamp.kind = "malformed"
    THEN Outcome(posts, streaks, tracking_mode, tracked_channels,
                 Raised("ValueError"))
    ELSE record_on_date(channel_id, user_id,
                        local_date(timestamp.secs, config.timezone))

\* ------------------------------------------------------------------ actions
\* A method run as one step: it takes the lock, runs its statements, commits
\* and releases the lock, and the store holds its outcome.
Commit(outcome) ==
    /\ posts' = outcome.posts
    /\ streaks' = outcome.streaks
    /\ tracking_mode' = outcome.tracking_mode
    /\ tracked_channels' = outcome.tracked_channels

record_message(channel_id, user_id, timestamp) ==
    LET outcome == record_message_outcome(channel_id, user_id, timestamp)
    IN  /\ Cardinality(CallPosts \cap outcome.posts) <= MaxPosts
        /\ Commit(outcome)
        /\ UNCHANGED <<config, calls>>

set_tracking_mode(mode) ==
    /\ Commit(set_tracking_mode_outcome(mode))
    /\ UNCHANGED <<config, calls>>

enable_channel(channel_id) ==
    /\ Commit(enable_channel_outcome(channel_id))
    /\ UNCHANGED <<config, calls>>

disable_channel(channel_id) ==
    /\ Commit(disable_channel_outcome(channel_id))
    /\ UNCHANGED <<config, calls>>

reset_channel_tracking ==
    /\ Commit(reset_channel_tracking_outcome)
    /\ UNCHANGED <<config, calls>>

\* ------------------------------------------------------------ specification
Next ==
    \/ \E c \in Channels, u \in Users, ts \in Timestamps :
           record_message(c, u, ts)
    \/ \E mode \in ModeInputs : set_tracking_mode(mode)
    \/ \E c \in Channels : enable_channel(c)
    \/ \E c \in Channels : disable_channel(c)
    \/ reset_channel_tracking

Spec == Init /\ [][Next]_vars

\* ------------------------------------------- one user under a changing policy
\* The user whose messages arrive while the tracking policy is being changed.
PolicyUsers == {"U1"}

PolicyNext ==
    \/ \E c \in Channels, u \in PolicyUsers, ts \in Timestamps :
           record_message(c, u, ts)
    \/ \E mode \in ModeInputs : set_tracking_mode(mode)
    \/ \E c \in Channels : enable_channel(c)
    \/ \E c \in Channels : disable_channel(c)
    \/ reset_channel_tracking

PolicySpec == Init /\ [][PolicyNext]_vars

\* ------------------------------------------------- a database with a history
\* The streak a tracker finds in the database it is opened on: one day short
\* of a milestone.
HistoryLengths == {m - 1 : m \in MILESTONES}

\* __init__ on an existing db_path: one (channel, user) has posted on each of
\* the k days up to Thursday 1970-01-01, the day before the first call.
HistoryInit ==
    /\ config \in {cf \in Configs : cf.off_days = {} /\ cf.timezone = "UTC"}
    /\ \E pair \in Pairs, k \in HistoryLengths :
           /\ posts = {<<pair[1], pair[2], isoformat(d)>> : d \in (1 - k)..0}
           /\ streaks =
                  [p \in {pair} |->
                      StreakRow(k, k, isoformat(1 - k), isoformat(0),
                                isoformat(1 - k), isoformat(0))]
    /\ tracking_mode = TRACKING_MODE_ALL
    /\ tracked_channels = {}
    /\ threads = [t \in Threads |-> IdleThread]
    /\ lock = UNLOCKED
    /\ journal = NULL

\* Slack's ts of a message posted in the first second of a day.
HistoryTimestamps == {[kind |-> "number", secs |-> d * 86400] : d \in Days}

\* Both users keep posting in the channel that has the history.
HistoryNext ==
    \E c \in {p[1] : p \in DOMAIN streaks}, u \in Users,
       ts \in HistoryTimestamps :
        record_message(c, u, ts)

HistorySpec == HistoryInit /\ [][HistoryNext]_vars

\* ------------------------------------------ a streak arriving at a milestone
\* The first day of the streak the database holds: the Monday of Days.
MilestoneStart == CHOOSE d \in Days : weekday_of(d) = 0

\* The k dates of a streak of k days that starts on start: the first k
\* dates from start on whose weekday is not an off-day, whole weeks first.
streak_dates(start, k) ==
    LET counts(d) == weekday_of(d) \notin config.off_days
        per_week == 7 - Cardinality(config.off_days)
        rest_from == start + 7 * (k \div per_week)
    IN  {d \in start..(rest_from - 1) : counts(d)}
            \cup {d \in rest_from..(rest_from + 6) :
                     /\ counts(d)
                     /\ Cardinality({e \in rest_from..d : counts(e)})
                            <= k % per_week}

\* The one pair that has the streak.
MilestonePair == <<"C1", "U1">>

\* __init__ on an existing db_path, under a configuration with some
\* countable weekday: the pair has posted on each of the k required days
\* from MilestoneStart on, and on no other day.
MilestoneInit ==
    /\ config \in {cf \in Configs :
                      cf.timezone = "UTC" /\ cf.off_days # 0..6}
    /\ \E k \in HistoryLengths :
           LET dates == streak_dates(MilestoneStart, k)
               start == isoformat(MilestoneStart)
               last == isoformat(CHOOSE x \in dates : \A y \in dates : y <= x)
           IN  /\ posts = {<<MilestonePair[1], MilestonePair[2], isoformat(d)>> :
                               d \in dates}
               /\ streaks = [p \in {MilestonePair} |->
                                StreakRow(k, k, start, last, start, last)]
    /\ tracking_mode = TRACKING_MODE_ALL
    /\ tracked_channels = {}
    /\ threads = [t \in Threads |-> IdleThread]
    /\ lock = UNLOCKED
    /\ journal = NULL

\* The dates of the messages that arrive: the Friday and the Saturday
\* before the streak began, the last counted day again, the day after it
\* and the next required day.
MilestoneDates ==
    LET last == fromisoformat(streaks[MilestonePair].last_counted_date)
    IN  {1, 2, last, last + 1, next_required_date(last)}

\* The streak lengths the runs pass through: from one day short of a
\* milestone to one day past it.
MilestoneLengths == UNION {{m - 1, m, m + 1} : m \in MILESTONES}

MilestoneNext ==
    \E d \in MilestoneDates :
        LET ts == [kind |-> "number", secs |-> d * 86400]
            outcome == record_message_outcome(MilestonePair[1],
                                              MilestonePair[2], ts)
        IN  /\ outcome.streaks[MilestonePair].current_streak
                   \in MilestoneLengths
            /\ record_message(MilestonePair[1], MilestonePair[2], ts)

MilestoneSpec == MilestoneInit /\ [][MilestoneNext]_vars

\* -------------------------------------------------------- concurrent callers
\* The calls the threads make: messages of both users in one channel, posted
\* in the first second of a day or carrying a malformed ts, and every
\* tracking call.
ThreadCalls ==
    { [method |-> "record_message", channel_id |-> "C1", user_id |-> u,
       timestamp |-> ts] :
          u \in Users,
          ts \in HistoryTimestamps \cup {[kind |-> "malformed", secs |-> 0]} }
        \cup {[method |-> "set_tracking_mode", mode |-> m] : m \in ModeInputs}
        \cup {[method |-> "enable_channel", channel_id |-> c] : c \in Channels}
        \cup {[method |-> "disable_channel", channel_id |-> c] : c \in Channels}
        \cup {[method |-> "reset_channel_tracking"]}

\* The four tables as the connection sees them.
Store ==
    [ posts |-> posts,
      streaks |-> streaks,
      tracking_mode |-> tracking_mode,
      tracked_channels |-> tracked_channels ]

StoreOf(outcome) ==
    [ posts |-> outcome.posts,
      streaks |-> outcome.streaks,
      tracking_mode |-> outcome.tracking_mode,
      tracked_channels |-> outcome.tracked_channels ]

\* The database file: what a new connection finds after a crash.
Committed == IF journal = NULL THEN Store ELSE journal

\* The method of a call run as one step, as in Spec.
atomic_outcome(call, message_date) ==
    CASE call.method = "record_message" ->
             record_on_date(call.channel_id, call.user_id, message_date)
      [] call.method = "set_tracking_mode" ->
             set_tracking_mode_outcome(call.mode)
      [] call.method = "enable_channel" ->
             enable_channel_outcome(call.channel_id)
      [] call.method = "disable_channel" ->
             disable_channel_outcome(call.channel_id)
      [] call.method = "reset_channel_tracking" ->
             reset_channel_tracking_outcome
      [] call.method = "is_channel_tracked" ->
             Outcome(posts, streaks, tracking_mode, tracked_channels,
                     Returned(is_channel_tracked(call.channel_id)))
      [] call.method = "get_tracking_mode" ->
             Outcome(posts, streaks, tracking_mode, tracked_channels,
                     Returned(get_tracking_mode))

\* Fault: the methods do not take the lock.
may_acquire_unlocked(t) == TRUE

\* with self._lock: RLock.acquire blocks while another thread holds the lock.
may_acquire(t) == lock = UNLOCKED \/ lock = t

\* Fault: the connection is in autocommit mode, no transaction is opened.
open_transaction_autocommit == NULL

\* The implicit BEGIN before the first INSERT, UPDATE or DELETE of a
\* transaction: the rollback image is the store as it was.
open_transaction == IF journal = NULL THEN Store ELSE journal

\* The pc values at which a thread is about to run a statement inside
\* "with self._conn".
StatementPcs ==
    { "insert_post", "update_streak", "upsert_mode", "insert_channel",
      "delete_channel", "delete_channels" }

\* The setting a call writes: enable_channel writes "limited",
\* reset_channel_tracking is set_tracking_mode("all").
mode_written(call) ==
    CASE call.method = "enable_channel" -> TRACKING_MODE_LIMITED
      [] call.method = "reset_channel_tracking" -> TRACKING_MODE_ALL
      [] call.method = "set_tracking_mode" -> call.mode

\* Fault: the argument is not checked before the lock is requested.
Call_unchecked(t, call) ==
    /\ threads[t].alive
    /\ threads[t].pc = "idle"
    /\ threads' =
           [threads EXCEPT ![t] =
               [@ EXCEPT !.pc = "acquire", !.call = call,
                         !.message_date =
                             IF call.method = "record_message"
                             THEN local_date(call.timestamp.secs,
                                             config.timezone)
                             ELSE NULL]]
    /\ UNCHANGED <<config, posts, streaks, tracking_mode, tracked_channels,
                   lock, journal>>

\* The caller's side of a method, before "with self._lock": float(timestamp)
\* and the mode check raise here, and the message's local date is fixed.
Call(t, call) ==
    /\ threads[t].alive
    /\ threads[t].pc = "idle"
    /\ threads' =
           [threads EXCEPT ![t] =
               IF \/ /\ call.method = "record_message"
                     /\ call.timestamp.kind = "malformed"
                  \/ /\ call.method = "set_tracking_mode"
                     /\ call.mode \notin {TRACKING_MODE_ALL, TRACKING_MODE_LIMITED}
               THEN [@ EXCEPT !.pc = "done", !.call = call,
                              !.result = Raised("ValueError")]
               ELSE [@ EXCEPT !.pc = "acquire", !.call = call,
                              !.message_date =
                                  IF call.method = "record_message"
                                  THEN local_date(call.timestamp.secs,
                                                  config.timezone)
                                  ELSE NULL]]
    /\ UNCHANGED <<config, posts, streaks, tracking_mode, tracked_channels,
                   lock, journal>>

\* with self._lock. expected remembers what the method run as one step on
\* the store found here would do, and what it leaves if it raises.
Acquire(t) ==
    /\ threads[t].alive
    /\ threads[t].pc = "acquire"
    /\ may_acquire(t)
    /\ lock' = t
    /\ threads' =
           [threads EXCEPT ![t] =
               [@ EXCEPT
                   !.pc = CASE threads[t].call.method = "record_message" ->
                                   "insert_post"
                            [] threads[t].call.method = "disable_channel" ->
                                   "delete_channel"
                            [] threads[t].call.method
                                   \in {"is_channel_tracked",
                                        "get_tracking_mode"} ->
                                   "select_tracking"
                            [] OTHER -> "upsert_mode",
                   !.expected =
                       [ done |-> atomic_outcome(threads[t].call,
                                                 threads[t].message_date),
                         failed |-> Outcome(posts, streaks, tracking_mode,
                                            tracked_channels,
                                            Raised("OperationalError")) ]]]
    /\ UNCHANGED <<config, posts, streaks, tracking_mode, tracked_channels,
                   journal>>

\* A statement that writes: the connection opens a transaction if none is
\* open, and its view of the tables changes.
Execute(new) ==
    /\ journal' = open_transaction
    /\ Commit(new)

\* Lines 256-262: INSERT OR IGNORE INTO posts.
InsertPost(t) ==
    LET call == threads[t].call
        post == <<call.channel_id, call.user_id,
                  isoformat(threads[t].message_date)>>
    IN  /\ threads[t].alive
        /\ threads[t].pc = "insert_post"
        /\ Execute([Store EXCEPT !.posts = posts \cup {post}])
        /\ threads' =
               [threads EXCEPT ![t] =
                   [@ EXCEPT !.pc = "update_streak",
                             !.inserted = IF post \in posts THEN 0 ELSE 1]]
        /\ UNCHANGED <<config, lock>>

\* Lines 264-424: the streak row is read and written, the result is built.
UpdateStreak(t) ==
    LET call == threads[t].call
        outcome == record_after_insert(call.channel_id, call.user_id,
                                       threads[t].message_date,
                                       threads[t].inserted)
    IN  /\ threads[t].alive
        /\ threads[t].pc = "update_streak"
        /\ Execute([Store EXCEPT !.streaks = outcome.streaks])
        /\ threads' =
               [threads EXCEPT ![t] =
                   [@ EXCEPT !.pc = "commit", !.result = outcome.result]]
        /\ UNCHANGED <<config, lock>>

\* The settings upsert of set_tracking_mode and of enable_channel.
UpsertMode(t) ==
    LET call == threads[t].call
    IN  /\ threads[t].alive
        /\ threads[t].pc = "upsert_mode"
        /\ Execute([Store EXCEPT !.tracking_mode = mode_written(call)])
        /\ threads' =
               [threads EXCEPT ![t] =
                   [@ EXCEPT
                       !.pc = IF call.method = "enable_channel"
                              THEN "insert_channel"
                              ELSE IF mode_written(call) = TRACKING_MODE_ALL
                                   THEN "delete_channels"
                                   ELSE "commit",
                       !.result = IF call.method = "enable_channel"
                                  THEN @
                                  ELSE Returned(NULL)]]
        /\ UNCHANGED <<config, lock>>

\* enable_channel: INSERT OR IGNORE INTO tracked_channels, and its rowcount.
InsertChannel(t) ==
    LET c == threads[t].call.channel_id
    IN  /\ threads[t].alive
        /\ threads[t].pc = "insert_channel"
        /\ Execute([Store EXCEPT !.tracked_channels = tracked_channels \cup {c}])
        /\ threads' =
               [threads EXCEPT ![t] =
                   [@ EXCEPT !.pc = "commit",
                             !.result = Returned(c \notin tracked_channels)]]
        /\ UNCHANGED <<config, lock>>

\* disable_channel: DELETE FROM tracked_channels WHERE channel_id = ?, and
\* its rowcount.
DeleteChannel(t) ==
    LET c == threads[t].call.channel_id
    IN  /\ threads[t].alive
        /\ threads[t].pc = "delete_channel"
        /\ Execute([Store EXCEPT !.tracked_channels = tracked_channels \ {c}])
        /\ threads' =
               [threads EXCEPT ![t] =
                   [@ EXCEPT !.pc = "commit",
                             !.result = Returned(c \in tracked_channels)]]
        /\ UNCHANGED <<config, lock>>

\* set_tracking_mode("all"): DELETE FROM tracked_channels.
DeleteChannels(t) ==
    /\ threads[t].alive
    /\ threads[t].pc = "delete_channels"
    /\ Execute([Store EXCEPT !.tracked_channels = {}])
    /\ threads' = [threads EXCEPT ![t] = [@ EXCEPT !.pc = "commit"]]
    /\ UNCHANGED <<config, lock>>

\* The end of "with self._conn": the transaction is committed.
CommitTransaction(t) ==
    /\ threads[t].alive
    /\ threads[t].pc = "commit"
    /\ journal' = NULL
    /\ threads' = [threads EXCEPT ![t] = [@ EXCEPT !.pc = "release"]]
    /\ UNCHANGED <<config, posts, streaks, tracking_mode, tracked_channels,
                   lock>>

\* The end of "with self._lock", and the return to the caller.
Release(t) ==
    /\ threads[t].alive
    /\ threads[t].pc = "release"
    /\ lock' = IF lock = t THEN UNLOCKED ELSE lock
    /\ threads' = [threads EXCEPT ![t] = [@ EXCEPT !.pc = "done"]]
    /\ UNCHANGED <<config, posts, streaks, tracking_mode, tracked_channels,
                   journal>>

\* Fault: an exception leaves the method without releasing the lock.
Fail_keeps_lock(t) ==
    /\ threads[t].alive
    /\ threads[t].pc \in StatementPcs
    /\ Commit(Committed)
    /\ journal' = NULL
    /\ threads' =
           [threads EXCEPT ![t] =
               [@ EXCEPT !.pc = "done",
                         !.result = Raised("OperationalError")]]
    /\ UNCHANGED <<config, lock>>

\* The statement a thread is about to run raises: "with self._conn" rolls
\* the transaction back and the exception goes on to the caller.
Fail(t) ==
    /\ threads[t].alive
    /\ threads[t].pc \in StatementPcs
    /\ Commit(Committed)
    /\ journal' = NULL
    /\ threads' =
           [threads EXCEPT ![t] =
               [@ EXCEPT !.pc = "release",
                         !.result = Raised("OperationalError")]]
    /\ UNCHANGED <<config, lock>>

\* The process dies: no thread takes another step, and the database is what
\* had been committed.
Crash ==
    /\ \E t \in Threads : threads[t].alive
    /\ Commit(Committed)
    /\ journal' = NULL
    /\ lock' = UNLOCKED
    /\ threads' = [t \in Threads |-> [threads[t] EXCEPT !.alive = FALSE]]
    /\ UNCHANGED config

ConcurrentNext ==
    \/ \E t \in Threads, call \in ThreadCalls : Call(t, call)
    \/ \E t \in Threads : Acquire(t)
    \/ \E t \in Threads : InsertPost(t)
    \/ \E t \in Threads : UpdateStreak(t)
    \/ \E t \in Threads : UpsertMode(t)
    \/ \E t \in Threads : InsertChannel(t)
    \/ \E t \in Threads : DeleteChannel(t)
    \/ \E t \in Threads : DeleteChannels(t)
    \/ \E t \in Threads : CommitTransaction(t)
    \/ \E t \in Threads : Release(t)
    \/ \E t \in Threads : Fail(t)
    \/ Crash

ConcurrentSpec == Init /\ [][ConcurrentNext]_vars

\* -------------------------------------------------- threads that are scheduled
\* The calls of threads that contend for the lock: the mutating methods on
\* one channel and one user, and the two reads that take the lock.
LiveCalls ==
    {call \in ThreadCalls :
        /\ "channel_id" \in DOMAIN call => call.channel_id = "C1"
        /\ "user_id" \in DOMAIN call => call.user_id = "U1"}
        \cup {[method |-> "is_channel_tracked", channel_id |-> "C1"],
              [method |-> "get_tracking_mode"]}

\* get_tracking_mode and is_channel_tracked, inside "with self._lock": the
\* SELECTs on settings and tracked_channels.
ReadTracking(t) ==
    /\ threads[t].alive
    /\ threads[t].pc = "select_tracking"
    /\ threads' =
           [threads EXCEPT ![t] =
               [@ EXCEPT !.pc = "release",
                         !.result = atomic_outcome(threads[t].call, NULL).result]]
    /\ UNCHANGED <<config, posts, streaks, tracking_mode, tracked_channels,
                   lock, journal>>

\* A step of thread t inside a method it has entered, failures aside.
Proceed(t) ==
    \/ Acquire(t)
    \/ InsertPost(t)
    \/ UpdateStreak(t)
    \/ UpsertMode(t)
    \/ InsertChannel(t)
    \/ DeleteChannel(t)
    \/ DeleteChannels(t)
    \/ ReadTracking(t)
    \/ CommitTransaction(t)
    \/ Release(t)

LiveNext ==
    \/ \E t \in Threads, call \in LiveCalls : Call(t, call)
    \/ \E t \in Threads : Proceed(t)
    \/ \E t \in Threads : Fail(t)

\* The interpreter schedules every thread that can run: a thread that stays
\* able to take its next step takes it.
LiveSpec ==
    /\ Init
    /\ [][LiveNext]_vars
    /\ \A t \in Threads : WF_vars(Proceed(t))

\* ------------------------------------------------- queries beside a writer
\* The read-only calls a thread makes while another records messages.
QueryCalls ==
    { [method |-> "get_user_streak", channel_id |-> "C1", user_id |-> u] :
          u \in Users }
        \cup {[method |-> "leaderboard", channel_id |-> "C1", limit |-> 10]}

RecordCalls == {call \in ThreadCalls : call.method = "record_message"}

\* The SELECT of a query, run on a given streaks table.
query_result(table, call) ==
    CASE call.method = "get_user_streak" ->
             get_user_streak_in(table, call.channel_id, call.user_id)
      [] call.method = "leaderboard" ->
             leaderboard_in(table, call.channel_id, call.limit)

\* get_user_streak and leaderboard are entered: neither takes self._lock.
CallQuery(t, call) ==
    /\ threads[t].alive
    /\ threads[t].pc = "idle"
    /\ threads' = [threads EXCEPT ![t] = [@ EXCEPT !.pc = "query", !.call = call]]
    /\ UNCHANGED <<config, posts, streaks, tracking_mode, tracked_channels,
                   lock, journal>>

\* cursor.execute(SELECT ...) on self._conn: the statement reads the tables
\* as the connection sees them, an open transaction's writes included.
\* expected remembers what the same statement finds in the database file.
Query(t) ==
    /\ threads[t].alive
    /\ threads[t].pc = "query"
    /\ threads' =
           [threads EXCEPT ![t] =
               [@ EXCEPT !.pc = "done",
                         !.result = query_result(streaks, threads[t].call),
                         !.expected =
                             [committed |->
                                 query_result(Committed.streaks,
                                              threads[t].call)]]]
    /\ UNCHANGED <<config, posts, streaks, tracking_mode, tracked_channels,
                   lock, journal>>

QueryNext ==
    \/ \E t \in Threads, call \in RecordCalls : Call(t, call)
    \/ \E t \in Threads : Acquire(t)
    \/ \E t \in Threads : InsertPost(t)
    \/ \E t \in Threads : UpdateStreak(t)
    \/ \E t \in Threads : CommitTransaction(t)
    \/ \E t \in Threads : Release(t)
    \/ \E t \in Threads : Fail(t)
    \/ \E t \in Threads, call \in QueryCalls : CallQuery(t, call)
    \/ \E t \in Threads : Query(t)

QuerySpec == Init /\ [][QueryNext]_vars

\* ------------------------------------------------------- the Slack handlers
\* bot.py, SlacklineApp._register_handlers: the message listener and the
\* /streak-tracking command, each run by a thread of the server. A tracker
\* method is one step here: it holds the tracker's lock from its first
\* statement to its commit.

\* Message events: a subtype or none, a user or none, a channel, Slack's ts
\* or none.
Events ==
    [ subtype : {"", "bot_message"},
      user : Users \cup {""},
      channel : Channels,
      ts : HistoryTimestamps \cup {[kind |-> "malformed", secs |-> 0], NULL} ]

\* The first word of a /streak-tracking command, stripped and lower-cased.
CommandActions ==
    {"enable", "on", "disable", "off", "reset", "all", "any", "status", ""}

\* The replies of configure_tracking, each by one sentence of its text.
REPLY_ENABLED ==
    "Slackline will now track streaks in this channel."
REPLY_ALREADY_ENABLED == "Streak tracking is already enabled in this channel."
REPLY_DISABLED == "Slackline will no longer track streaks in this channel."
REPLY_ALREADY_DISABLED == "Streak tracking was already disabled in this channel."
REPLY_RESET ==
    "Slackline now requires each channel to opt in for tracking."
REPLY_NOT_TRACKING ==
    "Slackline is currently not tracking any channels."
REPLY_TRACKING_ONLY == "Slackline is tracking streaks only in these channels: "
REPLY_USAGE_ALL ==
    "Slackline is currently tracking all channels."
REPLY_USAGE_LIMITED ==
    "Slackline is currently tracking only opted-in channels."

\* configure_tracking: the tracker method the command runs, and the reply
\* in place of the method's return value.
configure_tracking_outcome(channel_id, action) ==
    LET same(reply) ==
            Outcome(posts, streaks, tracking_mode, tracked_channels,
                    Returned(reply))
        replied(outcome, reply) == [outcome EXCEPT !.result = Returned(reply)]
    IN  CASE action \in {"enable", "on", "start"} ->
                 replied(enable_channel_outcome(channel_id),
                         IF enable_channel_outcome(channel_id).result.returned
                         THEN REPLY_ENABLED
                         ELSE REPLY_ALREADY_ENABLED)
          [] action \in {"disable", "off", "stop"} ->
                 replied(disable_channel_outcome(channel_id),
                         IF disable_channel_outcome(channel_id).result.returned
                         THEN REPLY_DISABLED
                         ELSE REPLY_ALREADY_DISABLED)
          [] action \in {"all", "reset", "any"} ->
                 replied(reset_channel_tracking_outcome, REPLY_RESET)
          [] action \in {"status", "list"} ->
                 same(IF tracked_channels_list = <<>>
                      THEN REPLY_NOT_TRACKING
                      ELSE REPLY_TRACKING_ONLY)
          [] OTHER ->
                 same(IF is_tracking_restricted
                      THEN REPLY_USAGE_LIMITED
                      ELSE REPLY_USAGE_ALL)

\* handle_message up to its first call of the tracker: events with a
\* filtered subtype or without user, channel or ts are dropped.
handle_message(t, event) ==
    /\ threads[t].pc = "idle"
    /\ threads' =
           [threads EXCEPT ![t] =
               [@ EXCEPT !.call = event,
                         !.pc = IF \/ event.subtype \in {"message_changed",
                                                         "message_deleted",
                                                         "bot_message"}
                                   \/ event.user = ""
                                   \/ event.channel = ""
                                   \/ event.ts = NULL
                                THEN "done"
                                ELSE "is_channel_tracked"]]
    /\ UNCHANGED <<config, posts, streaks, tracking_mode, tracked_channels,
                   lock, journal>>

\* if not self.tracker.is_channel_tracked(channel): return
handle_message_check(t) ==
    /\ threads[t].pc = "is_channel_tracked"
    /\ threads' =
           [threads EXCEPT ![t] =
               [@ EXCEPT !.pc = IF is_channel_tracked(threads[t].call.channel)
                                THEN "record_message"
                                ELSE "done"]]
    /\ UNCHANGED <<config, posts, streaks, tracking_mode, tracked_channels,
                   lock, journal>>

\* result = self.tracker.record_message(channel, user, ts)
handle_message_record(t) ==
    LET event == threads[t].call
        outcome == record_message_outcome(event.channel, event.user, event.ts)
    IN  /\ threads[t].pc = "record_message"
        /\ Commit(outcome)
        /\ threads' =
               [threads EXCEPT ![t] =
                   [@ EXCEPT !.pc = "done", !.result = outcome.result]]
        /\ UNCHANGED <<config, lock, journal>>

\* The /streak-tracking command.
configure_tracking(t, channel_id, action) ==
    LET outcome == configure_tracking_outcome(channel_id, action)
    IN  /\ threads[t].pc = "idle"
        /\ Commit(outcome)
        /\ threads' =
               [threads EXCEPT ![t] =
                   [@ EXCEPT !.pc = "done",
                             !.call = [channel_id |-> channel_id,
                                       action |-> action],
                             !.result = outcome.result]]
        /\ UNCHANGED <<config, lock, journal>>

BotNext ==
    \/ \E t \in Threads, event \in Events : handle_message(t, event)
    \/ \E t \in Threads : handle_message_check(t)
    \/ \E t \in Threads : handle_message_record(t)
    \/ \E t \in Threads, c \in Channels, action \in CommandActions :
           configure_tracking(t, c, action)

BotSpec == Init /\ [][BotNext]_vars

\* ------------------------------------------------------ scope verification
\* bot.py, SlacklineApp._verify_scopes, run once when the app starts.
REQUIRED_BOT_SCOPES ==
    { "app_mentions:read", "channels:history", "channels:read", "chat:write",
      "commands", "groups:history", "groups:read" }

\* The scope names that occur in responses, in the order sorted() gives
\* them: two required scopes and one that is not required.
ScopeNames == <<"chat:write", "commands", "users:read">>

\* The items of a list in a response: scope names, and a value that is not
\* a str.
ScopeItems ==
    {[type |-> "str", value |-> ScopeNames[i]] : i \in DOMAIN ScopeNames}
        \cup {[type |-> "int"]}

ScopeLists ==
    UNION {[1..n -> ScopeItems] : n \in 0..MaxScopeList}

\* A scope group, or the whole "scopes" value when it is not a dict: a
\* list, a str, or a value of another type.
ScopeGroups ==
    {[type |-> "list", items |-> l] : l \in ScopeLists}
        \cup {[type |-> "str", value |-> ScopeNames[i]] : i \in DOMAIN ScopeNames}
        \cup {[type |-> "none"]}

\* What api_call("apps.auth.scopes.list") gives: a dict whose "scopes" is a
\* dict of two groups or a single group value, a response that is not a
\* dict, or a SlackApiError.
ScopeResponses ==
    {[type |-> "dict",
      scopes |-> [type |-> "dict", channel |-> c, group |-> g]] :
          c \in ScopeGroups, g \in ScopeGroups}
        \cup {[type |-> "dict", scopes |-> g] : g \in ScopeGroups}
        \cup {[type |-> "other"], [type |-> "SlackApiError"]}

\* The required_scopes a caller passes.
RequiredInputs == SUBSET {"chat:write", "commands"}

\* The str items of one scope group.
group_scopes(scope_group) ==
    CASE scope_group.type = "list" ->
             {scope_group.items[i].value :
                  i \in {j \in DOMAIN scope_group.items :
                            scope_group.items[j].type = "str"}}
      [] scope_group.type = "str" -> {scope_group.value}
      [] OTHER -> {}

\* Fault: only the first scope group of a dict is read.
extract_scopes_from_response_first_group(response) ==
    IF response.type # "dict"
    THEN {}
    ELSE IF response.scopes.type = "dict"
    THEN group_scopes(response.scopes.channel)
    ELSE group_scopes(response.scopes)

\* SlacklineApp._extract_scopes_from_response
extract_scopes_from_response(response) ==
    IF response.type # "dict"
    THEN {}
    ELSE IF response.scopes.type = "dict"
    THEN group_scopes(response.scopes.channel)
             \cup group_scopes(response.scopes.group)
    ELSE group_scopes(response.scopes)

\* sorted(): the names of a set in the order of ScopeNames.
sorted_scopes(names) ==
    LET position(x) == CHOOSE i \in DOMAIN ScopeNames : ScopeNames[i] = x
    IN  [ i \in 1..Cardinality(names) |->
            CHOOSE x \in names :
                Cardinality({y \in names : position(y) < position(x)}) = i - 1 ]

\* ", ".join(names)
RECURSIVE join(_)
join(names) ==
    IF names = <<>>
    THEN ""
    ELSE IF Len(names) = 1
    THEN names[1]
    ELSE names[1] \o ", " \o join(Tail(names))

\* SlacklineApp._verify_scopes: what the call hands back.
verify_scopes_result(required, response) ==
    IF response.type = "SlackApiError"
    THEN Raised("SlackApiError")
    ELSE LET granted == extract_scopes_from_response(response)
             missing == sorted_scopes(required \ granted)
         IN  IF missing # <<>>
             THEN [ raised |-> "RuntimeError",
                    message |-> "Missing required Slack scopes: "
                                    \o join(missing) ]
             ELSE Returned(NULL)

\* __init__ has come to _run_startup_checks: T1 is about to verify the
\* scopes in required against the response Slack will give.
ScopeInit ==
    /\ config \in {cf \in Configs : cf.off_days = {} /\ cf.timezone = "UTC"}
    /\ posts = {}
    /\ streaks = <<>>
    /\ tracking_mode = TRACKING_MODE_ALL
    /\ tracked_channels = {}
    /\ lock = UNLOCKED
    /\ journal = NULL
    /\ \E required \in RequiredInputs, response \in ScopeResponses :
           threads =
               [t \in Threads |->
                   IF t = "T1"
                   THEN [IdleThread EXCEPT
                            !.pc = "verify_scopes",
                            !.call = [required |-> required,
                                      response |-> response]]
                   ELSE IdleThread]

verify_scopes(t) ==
    /\ threads[t].pc = "verify_scopes"
    /\ threads' =
           [threads EXCEPT ![t] =
               [@ EXCEPT !.pc = "done",
                         !.result = verify_scopes_result(
                                        threads[t].call.required,
                                        threads[t].call.response)]]
    /\ UNCHANGED <<config, posts, streaks, tracking_mode, tracked_channels,
                   lock, journal>>

ScopeNext == \E t \in Threads : verify_scopes(t)

ScopeSpec == ScopeInit /\ [][ScopeNext]_vars

\* ------------------------------------------------- vocabulary of the claims
\* A date on which activity counts toward a streak.
Countable(d) == weekday_of(d) \notin config.off_days

\* The dates of the Daily Post Records of (c, u) in a posts table.
PostDates(table, c, u) ==
    {fromisoformat(q[3]) : q \in {x \in table : x[1] = c /\ x[2] = u}}

HasPost(c, u, d) == <<c, u, isoformat(d)>> \in posts
HasRow(c, u) == <<c, u>> \in DOMAIN streaks
HasCountedDay(c, u) ==
    HasRow(c, u) /\ streaks[<<c, u>>].last_counted_date # NULL
LastCounted(c, u) == fromisoformat(streaks[<<c, u>>].last_counted_date)

LatestOf(dates) == CHOOSE x \in dates : \A y \in dates : y <= x
EarliestOf(dates) == CHOOSE x \in dates : \A y \in dates : x <= y

\* d is the first non-off-day strictly after the date last.
IsExpectedNext(last, d) ==
    /\ d > last
    /\ Countable(d)
    /\ \A f \in (last + 1)..(d - 1) : ~Countable(f)

\* d lies strictly after the first non-off-day after the date last.
IsAfterExpectedNext(last, d) ==
    \E f \in (last + 1)..(d - 1) : Countable(f)

\* d lies strictly before the first non-off-day after the date last.
IsBeforeExpectedNext(last, d) ==
    ~IsExpectedNext(last, d) /\ ~IsAfterExpectedNext(last, d)

\* The store k in-order calls on consecutive countable days leave for (c, u):
\* k post records, one per countable day of an unbroken run, and a row whose
\* current and longest streak are both k.
InOrderRun(table, rows, c, u, k) ==
    /\ k >= 1
    /\ <<c, u>> \in DOMAIN rows
    /\ LET dates == PostDates(table, c, u)
           row == rows[<<c, u>>]
       IN  /\ Cardinality(dates) = k
           /\ \A d \in dates : Countable(d)
           /\ \A f \in EarliestOf(dates)..LatestOf(dates) :
                  Countable(f) => f \in dates
           /\ row.current_streak = k
           /\ row.longest_streak = k
           /\ row.last_counted_date = isoformat(LatestOf(dates))

\* ---------------------------------------------------------------- the claims
\* C1: from no prior state of (channel, user), the k-th of a sequence of
\* record calls on consecutive countable days returns streak_length = k and
\* leaves current_streak = longest_streak = k.  Stated as the induction step
\* over InOrderRun: the first call of such a sequence finds no posts and no
\* row, every later one finds the store its predecessors left.
C1_ConsecutiveDaysCount ==
    \A c \in Channels, u \in Users, d \in CallDates :
        LET dates == PostDates(posts, c, u)
            k == Cardinality(dates)
            o == record_on_date(c, u, d)
        IN  ( /\ Countable(d)
              /\ \/ k = 0 /\ ~HasRow(c, u)
                 \/ /\ InOrderRun(posts, streaks, c, u, k)
                    /\ IsExpectedNext(LatestOf(dates), d) )
            => /\ o.result.streak_length = k + 1
               /\ o.streaks[<<c, u>>].current_streak = k + 1
               /\ o.streaks[<<c, u>>].longest_streak = k + 1
               /\ InOrderRun(o.posts, o.streaks, c, u, k + 1)

\* C1 witness: three in-order calls have left a streak of three.
C1_Witness ==
    \E c \in Channels, u \in Users : InOrderRun(posts, streaks, c, u, 3)

\* C2: a record call whose date already has a Daily Post Record returns
\* is_new_day = false, the stored current_streak and no milestone, and
\* leaves the streak row, the post records and the tracking state unchanged.
C2_DuplicateIsNoOp ==
    \A c \in Channels, u \in Users, d \in CallDates :
        HasPost(c, u, d) =>
            LET o == record_on_date(c, u, d)
            IN  /\ o.result.is_new_day = FALSE
                /\ HasRow(c, u)
                /\ o.result.streak_length = streaks[<<c, u>>].current_streak
                /\ o.result.milestone_message = NULL
                /\ o.streaks = streaks
                /\ o.posts = posts
                /\ o.tracking_mode = tracking_mode
                /\ o.tracked_channels = tracked_channels

\* C2 witness: one (channel, user) holds a counted post, an off-day post and
\* an out-of-order post (a countable day before the only streak it ever had).
C2_Witness ==
    \E c \in Channels, u \in Users :
        /\ HasCountedDay(c, u)
        /\ LET row == streaks[<<c, u>>]
               dates == PostDates(posts, c, u)
           IN  /\ row.current_streak = 1
               /\ row.longest_streak = 1
               /\ row.longest_streak_start = row.streak_start_date
               /\ row.streak_start_date = row.last_counted_date
               /\ \E d \in dates : ~Countable(d)
               /\ \E d \in dates :
                      Countable(d) /\ d < fromisoformat(row.streak_start_date)

\* C3: a record call on a new countable date strictly later than the first
\* non-off-day after last_counted_date resets the streak: current_streak = 1,
\* streak_start_date = last_counted_date = that date, and the call returns
\* streak_length = 1 with counted_toward_streak = true.
C3_GapReset ==
    \A c \in Channels, u \in Users, d \in CallDates :
        ( /\ ~HasPost(c, u, d)
          /\ Countable(d)
          /\ HasCountedDay(c, u)
          /\ IsAfterExpectedNext(LastCounted(c, u), d) )
        => LET o == record_on_date(c, u, d)
               row == o.streaks[<<c, u>>]
           IN  /\ row.current_streak = 1
               /\ row.streak_start_date = isoformat(d)
               /\ row.last_counted_date = isoformat(d)
               /\ o.result.streak_length = 1
               /\ o.result.counted_toward_streak = TRUE

\* C3 witness: a streak of two or more was broken and restarted at one.
C3_Witness ==
    \E p \in DOMAIN streaks :
        /\ streaks[p].current_streak = 1
        /\ streaks[p].longest_streak >= 2
        /\ streaks[p].streak_start_date = streaks[p].last_counted_date

\* C4: a record call on a new date that is the first non-off-day strictly
\* after last_counted_date, whatever was recorded on the off-days between,
\* raises current_streak by exactly 1 and keeps streak_start_date.
C4_ContinuesAcrossOffDays ==
    \A c \in Channels, u \in Users, d \in CallDates :
        ( /\ ~HasPost(c, u, d)
          /\ HasCountedDay(c, u)
          /\ IsExpectedNext(LastCounted(c, u), d) )
        => LET o == record_on_date(c, u, d)
               old == streaks[<<c, u>>]
               new == o.streaks[<<c, u>>]
           IN  /\ new.current_streak = old.current_streak + 1
               /\ new.streak_start_date = old.streak_start_date

\* C4 witness: a streak of two that spans off-days, one of them posted on.
C4_Witness ==
    \E c \in Channels, u \in Users :
        /\ HasCountedDay(c, u)
        /\ LET row == streaks[<<c, u>>]
               first == fromisoformat(row.streak_start_date)
               last == fromisoformat(row.last_counted_date)
           IN  /\ row.current_streak >= 2
               /\ last - first > row.current_streak - 1
               /\ \E d \in PostDates(posts, c, u) :
                      first < d /\ d < last /\ ~Countable(d)

\* C5: the first record call of an off-day date inserts the post record,
\* leaves an existing row untouched or creates an all-zero, all-null row,
\* and returns is_new_day = true, counted_toward_streak = false and the
\* unchanged streak length; the first countable day after only off-day
\* events starts the streak at 1.
C5_OffDayNeutral ==
    \A c \in Channels, u \in Users, d \in CallDates :
        LET o == record_on_date(c, u, d)
            pair == <<c, u>>
        IN  /\ ( ~HasPost(c, u, d) /\ ~Countable(d) ) =>
                   /\ o.posts = posts \cup {<<c, u, isoformat(d)>>}
                   /\ HasRow(c, u) => o.streaks = streaks
                   /\ ~HasRow(c, u) =>
                          /\ DOMAIN o.streaks = DOMAIN streaks \cup {pair}
                          /\ \A p \in DOMAIN streaks : o.streaks[p] = streaks[p]
                          /\ o.streaks[pair] =
                                 [ current_streak |-> 0,
                                   longest_streak |-> 0,
                                   streak_start_date |-> NULL,
                                   last_counted_date |-> NULL,
                                   longest_streak_start |-> NULL,
                                   longest_streak_end |-> NULL ]
                   /\ o.result.is_new_day = TRUE
                   /\ o.result.counted_toward_streak = FALSE
                   /\ o.result.milestone_message = NULL
                   /\ o.result.streak_length =
                          IF HasRow(c, u) THEN streaks[pair].current_streak ELSE 0
            /\ ( /\ ~HasPost(c, u, d)
                 /\ Countable(d)
                 /\ HasRow(c, u)
                 /\ ~HasCountedDay(c, u) ) =>
                   /\ o.result.streak_length = 1
                   /\ o.streaks[pair].current_streak = 1
                   /\ o.streaks[pair].streak_start_date = isoformat(d)
                   /\ o.streaks[pair].last_counted_date = isoformat(d)

\* C5 witness: one (channel, user) has only an all-zero row from an off-day
\* post, another has an off-day post before the day its streak of 1 began.
C5_Witness ==
    /\ \E p \in DOMAIN streaks :
           /\ streaks[p].current_streak = 0
           /\ streaks[p].last_counted_date = NULL
           /\ PostDates(posts, p[1], p[2]) # {}
    /\ \E p \in DOMAIN streaks :
           /\ streaks[p].current_streak = 1
           /\ \E d \in PostDates(posts, p[1], p[2]) :
                  ~Countable(d) /\ d < fromisoformat(streaks[p].streak_start_date)

\* C6: in every reachable state every row has
\* longest_streak >= current_streak >= 0.
C6_LongestAtLeastCurrent ==
    \A p \in DOMAIN streaks :
        /\ streaks[p].longest_streak >= streaks[p].current_streak
        /\ streaks[p].current_streak >= 0

\* C6 witness: tracking operations and record calls have interleaved and a
\* reset has left a row with longest_streak > current_streak >= 1.
C6_Witness ==
    /\ tracking_mode = TRACKING_MODE_LIMITED
    /\ tracked_channels # {}
    /\ \E p \in DOMAIN streaks :
           /\ streaks[p].current_streak >= 1
           /\ streaks[p].longest_streak > streaks[p].current_streak

\* C7: no step ever lowers the longest_streak of a row, and no step deletes
\* a row.
C7_LongestNeverDecreases ==
    [][ \A p \in DOMAIN streaks :
            /\ p \in DOMAIN streaks'
            /\ streaks'[p].longest_streak >= streaks[p].longest_streak ]_vars

\* C7 witness: the reset path ran after the longest streak had ended and
\* left longest_streak above the restarted current_streak.
C7_Witness ==
    \E p \in DOMAIN streaks :
        /\ streaks[p].longest_streak >= 2
        /\ streaks[p].current_streak = 1
        /\ fromisoformat(streaks[p].last_counted_date)
               > fromisoformat(streaks[p].longest_streak_end)

\* C8: whenever last_counted_date is non-null, streak_start_date is non-null
\* and not later than last_counted_date.
C8_LastCountedNotBeforeStart ==
    \A p \in DOMAIN streaks :
        streaks[p].last_counted_date # NULL =>
            /\ streaks[p].streak_start_date # NULL
            /\ fromisoformat(streaks[p].last_counted_date)
                   >= fromisoformat(streaks[p].streak_start_date)

\* C8 witness: a streak whose last counted day lies after its start.
C8_Witness ==
    \E p \in DOMAIN streaks :
        /\ streaks[p].last_counted_date # NULL
        /\ fromisoformat(streaks[p].last_counted_date)
               > fromisoformat(streaks[p].streak_start_date)

\* C9: a record call on a new countable date earlier than the first
\* non-off-day after last_counted_date inserts the post record, leaves the
\* streaks table unchanged and returns is_new_day = true,
\* counted_toward_streak = false, no milestone and the unchanged
\* current_streak.
C9_OutOfOrderLeavesStreak ==
    \A c \in Channels, u \in Users, d \in CallDates :
        ( /\ ~HasPost(c, u, d)
          /\ Countable(d)
          /\ HasCountedDay(c, u)
          /\ IsBeforeExpectedNext(LastCounted(c, u), d) )
        => LET o == record_on_date(c, u, d)
           IN  /\ o.posts = posts \cup {<<c, u, isoformat(d)>>}
               /\ o.streaks = streaks
               /\ o.result.is_new_day = TRUE
               /\ o.result.counted_toward_streak = FALSE
               /\ o.result.milestone_message = NULL
               /\ o.result.streak_length = streaks[<<c, u>>].current_streak

\* C9 witness: days 1, 3, then 2 were recorded: three consecutive countable
\* dates have posts, the streak is 1 and starts at day 3, and the longest
\* streak is still the single day 1.
C9_Witness ==
    \E c \in Channels, u \in Users :
        /\ HasCountedDay(c, u)
        /\ LET row == streaks[<<c, u>>]
               dates == PostDates(posts, c, u)
               day3 == fromisoformat(row.last_counted_date)
           IN  /\ dates = {day3 - 2, day3 - 1, day3}
               /\ \A d \in dates : Countable(d)
               /\ row.current_streak = 1
               /\ row.streak_start_date = isoformat(day3)
               /\ row.longest_streak = 1
               /\ row.longest_streak_start = isoformat(day3 - 2)

\* C10: a record call rewrites longest_streak and its span only when the new
\* current_streak strictly exceeds the stored longest_streak, and then the
\* span is (start of the current streak, the new date); otherwise
\* longest_streak and its span stay as they were.
C10_LongestSpan ==
    \A c \in Channels, u \in Users, d \in CallDates :
        LET o == record_on_date(c, u, d)
            new == o.streaks[<<c, u>>]
            old == IF HasRow(c, u)
                   THEN streaks[<<c, u>>]
                   ELSE [ current_streak |-> 0,
                          longest_streak |-> 0,
                          streak_start_date |-> NULL,
                          last_counted_date |-> NULL,
                          longest_streak_start |-> NULL,
                          longest_streak_end |-> NULL ]
        IN  IF new.current_streak > old.longest_streak
            THEN /\ new.longest_streak = new.current_streak
                 /\ new.longest_streak_start = new.streak_start_date
                 /\ new.longest_streak_end = isoformat(d)
            ELSE /\ new.longest_streak = old.longest_streak
                 /\ new.longest_streak_start = old.longest_streak_start
                 /\ new.longest_streak_end = old.longest_streak_end

\* C10 witness: a 2-day streak followed by a gap has left current = 1 and
\* longest = 2 with the span of the original two days.
C10_Witness ==
    \E p \in DOMAIN streaks :
        /\ streaks[p].current_streak = 1
        /\ streaks[p].longest_streak = 2
        /\ fromisoformat(streaks[p].longest_streak_end)
               = fromisoformat(streaks[p].longest_streak_start) + 1
        /\ fromisoformat(streaks[p].streak_start_date)
               > fromisoformat(streaks[p].longest_streak_end) + 1

\* C11: a record call that counts a new day returns, for every new
\* current_streak n, the announcement naming the user with the period
\* '1 week' for 7, '2 weeks' for 14, '1 month' for 30, '2 months' for 60,
\* '3 months' for 90, '6 months' for 180, '1 year' for 365 and '2 years' for
\* 730, and no message for any other n; the same holds of the milestone
\* function at every length 0..MaxStreakLength.
C11_PeriodText ==
    (7 :> "1 week") @@ (14 :> "2 weeks") @@ (30 :> "1 month")
        @@ (60 :> "2 months") @@ (90 :> "3 months") @@ (180 :> "6 months")
        @@ (365 :> "1 year") @@ (730 :> "2 years")

C11_Announcement(user_id, n) ==
    IF n \in DOMAIN C11_PeriodText
    THEN << ":tada: <@" \o user_id \o "> just hit a "
              \o C11_PeriodText[n] \o " streak!" >>
    ELSE NULL

C11_EveryLength ==
    \A u \in Users, n \in 0..MaxStreakLength :
        milestone_message(u, n) = C11_Announcement(u, n)

C11_MilestoneExact ==
    /\ C11_EveryLength
    /\ \A c \in Channels, u \in Users, d \in CallDates :
           LET o == record_on_date(c, u, d)
           IN  (o.result.is_new_day /\ o.result.counted_toward_streak) =>
                   /\ o.result.streak_length = o.streaks[<<c, u>>].current_streak
                   /\ o.result.milestone_message =
                          C11_Announcement(u, o.result.streak_length)

\* C11 witness: calls on the two days after a six-day history took the
\* streak through the milestone 7 to 8.
C11_Witness ==
    \E p \in DOMAIN streaks :
        /\ streaks[p].current_streak = 8
        /\ streaks[p].streak_start_date = isoformat(-5)
        /\ streaks[p].last_counted_date = isoformat(2)

\* C12: in every reachable state is_channel_tracked(c) is true iff
\* tracking_mode is ALL or c is in the explicit tracked set; in the initial
\* state every channel is tracked and tracking is not restricted; and the
\* step enable_channel("C1") from the initial state leaves C1 tracked and
\* every other channel untracked.
C12_TrackedIffAllOrListed ==
    /\ [](\A c \in Channels :
             is_channel_tracked(c) <=>
                 (tracking_mode = TRACKING_MODE_ALL \/ c \in tracked_channels))
    /\ [](Init => /\ \A c \in Channels : is_channel_tracked(c)
                  /\ ~is_tracking_restricted)
    /\ [][ (Init /\ enable_channel("C1")) =>
               ( /\ is_channel_tracked("C1")
                 /\ \A c \in Channels \ {"C1"} : ~is_channel_tracked(c) )'
       ]_vars

\* C12 witness: enable_channel("C1") has acted on the initial state.
C12_Witness ==
    /\ posts = {}
    /\ tracking_mode = TRACKING_MODE_LIMITED
    /\ tracked_channels = {"C1"}
    /\ is_channel_tracked("C1")
    /\ ~is_channel_tracked("C2")

\* C13: enable_channel(c) in any state sets tracking_mode to LIMITED, adds c
\* to the explicit set, leaves every other member as it was and returns true
\* iff c was not in the set; in the state it leaves, a second
\* enable_channel(c) returns false and changes nothing.
C13_Enable ==
    /\ [](\A c \in Channels :
             LET o == enable_channel_outcome(c)
             IN  /\ o.tracking_mode = TRACKING_MODE_LIMITED
                 /\ c \in o.tracked_channels
                 /\ \A x \in Channels \ {c} :
                        x \in o.tracked_channels <=> x \in tracked_channels
                 /\ o.result = Returned(c \notin tracked_channels)
                 /\ o.posts = posts
                 /\ o.streaks = streaks)
    /\ [][ \A c \in Channels :
               enable_channel(c) =>
                   ( /\ tracking_mode = TRACKING_MODE_LIMITED
                     /\ c \in tracked_channels
                     /\ enable_channel_outcome(c) =
                            Outcome(posts, streaks, tracking_mode,
                                    tracked_channels, Returned(FALSE)) )'
       ]_vars

\* C13 witness: the second channel was enabled after the first, which is
\* still in the set.
C13_Witness ==
    /\ tracking_mode = TRACKING_MODE_LIMITED
    /\ tracked_channels = Channels
    /\ posts # {}

\* C14 as stated: disable_channel(c) removes c if present, returns true iff
\* it removed a row and never changes tracking_mode; and from any state
\* enable_channel(c) leaves (mode LIMITED, c in the set), disable_channel(c)
\* leads to mode LIMITED, an empty tracked_channels() and no tracked channel.
C14_DisableAfterEnableLeavesNothing ==
    [][ \A c \in Channels :
           ( /\ tracking_mode = TRACKING_MODE_LIMITED
             /\ c \in tracked_channels
             /\ disable_channel(c) ) =>
               ( /\ tracking_mode = TRACKING_MODE_LIMITED
                 /\ tracked_channels_list = <<>>
                 /\ \A x \in Channels : ~is_channel_tracked(x) )'
       ]_vars

\* C14 amended: disable_channel(c) removes c if present, leaves every other
\* member, returns true iff it removed a row and never changes
\* tracking_mode; after enable_channel(c) followed by disable_channel(c) the
\* mode is still LIMITED, and when no other channel is in the explicit set
\* (as from the initial state) tracked_channels() is empty and no channel is
\* tracked.
C14_Disable ==
    /\ [](\A c \in Channels :
             LET o == disable_channel_outcome(c)
             IN  /\ o.tracked_channels = tracked_channels \ {c}
                 /\ o.result = Returned(c \in tracked_channels)
                 /\ o.tracking_mode = tracking_mode
                 /\ o.posts = posts
                 /\ o.streaks = streaks)
    /\ [][ \A c \in Channels :
               ( /\ tracking_mode = TRACKING_MODE_LIMITED
                 /\ c \in tracked_channels
                 /\ disable_channel(c) ) =>
                   /\ tracking_mode' = TRACKING_MODE_LIMITED
                   /\ (tracked_channels = {c}) =>
                          ( /\ tracked_channels_list = <<>>
                            /\ \A x \in Channels : ~is_channel_tracked(x) )'
       ]_vars

\* C14 witness: enable_channel then disable_channel of the same channel have
\* left tracking restricted with nothing listed, so no channel is tracked.
C14_Witness ==
    /\ tracking_mode = TRACKING_MODE_LIMITED
    /\ tracked_channels_list = <<>>
    /\ \A x \in Channels : ~is_channel_tracked(x)
    /\ posts # {}

\* C15: reset_channel_tracking() in any state sets tracking_mode to ALL and
\* empties the explicit set, leaving posts and streaks alone, so that in the
\* state it leaves is_tracking_restricted() is false and is_channel_tracked(c)
\* is true for every channel c.
C15_Reset ==
    /\ [](LET o == reset_channel_tracking_outcome
          IN  /\ o.tracking_mode = TRACKING_MODE_ALL
              /\ o.tracked_channels = {}
              /\ o.result = Returned(NULL)
              /\ o.posts = posts
              /\ o.streaks = streaks)
    /\ [][ reset_channel_tracking =>
               ( /\ tracking_mode = TRACKING_MODE_ALL
                 /\ tracked_channels = {}
                 /\ ~is_tracking_restricted
                 /\ \A c \in Channels : is_channel_tracked(c) )'
       ]_vars

\* C15 witness: tracking is restricted to both channels, posts are recorded,
\* and the reset applied here clears the list and lifts the restriction.
C15_Witness ==
    /\ is_tracking_restricted
    /\ tracked_channels = Channels
    /\ posts # {}
    /\ reset_channel_tracking_outcome.tracking_mode = TRACKING_MODE_ALL
    /\ reset_channel_tracking_outcome.tracked_channels = {}

\* C16: in every reachable state tracking_mode = ALL implies that the
\* explicit set is empty, so tracked_channels() returns the empty list; the
\* list holds exactly the channels of the set, in strictly ascending
\* channel-id order, hence without duplicates.
C16_ListedOnlyWhenLimited ==
    /\ tracking_mode = TRACKING_MODE_ALL =>
           /\ tracked_channels = {}
           /\ tracked_channels_list = <<>>
    /\ LET listed == tracked_channels_list
       IN  /\ {listed[i] : i \in DOMAIN listed} = tracked_channels
           /\ \A i, j \in DOMAIN listed :
                  i < j => sorts_before(listed[i], listed[j])

\* C16 witness: both channels are listed, "C1" before "C2".
C16_Witness ==
    /\ tracking_mode = TRACKING_MODE_LIMITED
    /\ tracked_channels_list = <<"C1", "C2">>
    /\ posts # {}

\* C17: record_message does not gate on tracking.  Across every step that
\* leaves posts and streaks alone and flips is_channel_tracked(c), each
\* record call in channel c has the same result and makes the same change
\* to posts and streaks before and after; and no record call changes
\* tracking_mode or the tracked set.
C17_Effect(outcome) ==
    [outcome EXCEPT !.tracking_mode = NULL, !.tracked_channels = NULL]

C17_RecordIgnoresTracking ==
    /\ [][ \A c \in Channels :
               ( /\ posts' = posts
                 /\ streaks' = streaks
                 /\ is_channel_tracked(c) # is_channel_tracked(c)' ) =>
                   \A u \in PolicyUsers, d \in CallDates :
                       C17_Effect(record_on_date(c, u, d))
                           = C17_Effect(record_on_date(c, u, d))'
       ]_vars
    /\ [](\A c \in Channels, u \in PolicyUsers, ts \in Timestamps :
             LET o == record_message_outcome(c, u, ts)
             IN  /\ o.tracking_mode = tracking_mode
                 /\ o.tracked_channels = tracked_channels)

\* C17 witness: "C2" is not tracked, and a record call in it counts a new
\* day and takes a streak to 2.
C17_Witness ==
    /\ ~is_channel_tracked("C2")
    /\ \E u \in PolicyUsers, d \in CallDates :
           LET o == record_on_date("C2", u, d)
           IN  /\ o.result.is_new_day
               /\ o.result.counted_toward_streak
               /\ o.result.streak_length = 2

\* C18: leaderboard(channel, limit) returns <<user, current_streak>> of rows
\* of that channel only, ordered by current_streak descending with ties by
\* user id ascending; it holds the first min(limit, number of rows) of them,
\* every row left out ranking after every row returned; and the rows
\* {U1:5, U2:5, U3:3} give [(U1,5), (U2,5), (U3,3)].  limit is a count: 0, 1,
\* 2 and the default 10.
C18_Limits == {0, 1, 2, 10}

C18_Example ==
    leaderboard_rows({<<"U1", 5>>, <<"U2", 5>>, <<"U3", 3>>}, 10)
        = << <<"U1", 5>>, <<"U2", 5>>, <<"U3", 3>> >>

C18_Leaderboard ==
    /\ C18_Example
    /\ \A c \in Channels, limit \in C18_Limits :
           LET board == leaderboard(c, limit)
               rows == { <<u, streaks[<<c, u>>].current_streak>> :
                            u \in {x \in Users : <<c, x>> \in DOMAIN streaks} }
               returned == {board[i] : i \in DOMAIN board}
           IN  /\ returned \subseteq rows
               /\ Len(board) =
                      IF limit < Cardinality(rows)
                      THEN limit
                      ELSE Cardinality(rows)
               /\ \A i, j \in DOMAIN board :
                      i < j =>
                          \/ board[i][2] > board[j][2]
                          \/ /\ board[i][2] = board[j][2]
                             /\ sorts_before(board[i][1], board[j][1])
               /\ \A left_out \in rows \ returned, kept \in returned :
                      \/ kept[2] > left_out[2]
                      \/ /\ kept[2] = left_out[2]
                         /\ sorts_before(kept[1], left_out[1])

\* C18 witness: in "C1" the longer streak of U2 ranks before U1, a limit of 1
\* cuts U1 off, and "C2" has a row that appears in neither list.
C18_Witness ==
    /\ leaderboard("C1", 10) = << <<"U2", 1>>, <<"U1", 0>> >>
    /\ leaderboard("C1", 1) = << <<"U2", 1>> >>
    /\ \E u \in Users :
           /\ <<"C2", u>> \in DOMAIN streaks
           /\ streaks[<<"C2", u>>].current_streak = 1

\* The threads that are inside a call to record_message.
RecordThreads ==
    {t \in Threads : /\ threads[t].pc # "idle"
                     /\ threads[t].call.method = "record_message"}

\* What the method of a thread that has held the lock must have done: what
\* it would do run as one step on the store it found, or nothing if a
\* statement raised.
ExpectedOf(t) ==
    IF "raised" \in DOMAIN threads[t].result
    THEN threads[t].expected.failed
    ELSE threads[t].expected.done

\* C19: mutating calls issued at the same time behave as some sequence of
\* them. Only the thread holding the lock changes the store; when a thread
\* leaves its method the store and its result are those of the method run as
\* one step on the store it found at the lock, so the calls took effect one
\* after another in the order of the lock; a call that raises before the
\* lock returns what it returns alone. Two record calls for the same
\* (channel, user, date) that both return give is_new_day = TRUE exactly
\* once, and the streak advances at most once.
C19_OneWriter ==
    /\ [](\A t \in Threads :
            /\ threads[t].pc = "release" =>
                   Outcome(posts, streaks, tracking_mode, tracked_channels,
                           threads[t].result) = ExpectedOf(t)
            /\ (threads[t].pc = "done" /\ DOMAIN threads[t].expected # {}) =>
                   threads[t].result = ExpectedOf(t).result
            /\ (threads[t].pc = "done" /\ DOMAIN threads[t].expected = {}) =>
                   threads[t].result = Raised("ValueError"))
    /\ [](\A t1 \in RecordThreads : \A t2 \in RecordThreads \ {t1} :
            (/\ threads[t1].pc = "done"
             /\ threads[t2].pc = "done"
             /\ "raised" \notin DOMAIN threads[t1].result
             /\ "raised" \notin DOMAIN threads[t2].result
             /\ threads[t1].call.user_id = threads[t2].call.user_id
             /\ threads[t1].call.channel_id = threads[t2].call.channel_id
             /\ threads[t1].message_date = threads[t2].message_date)
            => LET pair == <<threads[t1].call.channel_id,
                             threads[t1].call.user_id>>
                   d == threads[t1].message_date
               IN  /\ threads[t1].result.is_new_day
                          # threads[t2].result.is_new_day
                   /\ posts = {<<pair[1], pair[2], isoformat(d)>>}
                   /\ streaks[pair].current_streak
                          = IF Countable(d) THEN 1 ELSE 0
                   /\ threads[t1].result.streak_length
                          = streaks[pair].current_streak
                   /\ threads[t2].result.streak_length
                          = streaks[pair].current_streak)
    /\ [][ Store' # Store =>
              \/ \A t \in Threads : ~threads'[t].alive
              \/ /\ lock \in Threads
                 /\ lock' = lock
                 /\ \A t \in Threads \ {lock} : threads'[t] = threads[t] ]_vars

\* Both threads have recorded a message of the same user on the same
\* countable date and have returned.
C19_Witness ==
    /\ \A t \in Threads : threads[t].alive /\ threads[t].pc = "done"
    /\ RecordThreads = Threads
    /\ "raised" \notin DOMAIN threads["T1"].result
    /\ "raised" \notin DOMAIN threads["T2"].result
    /\ threads["T1"].call.user_id = threads["T2"].call.user_id
    /\ threads["T1"].message_date = threads["T2"].message_date
    /\ Countable(threads["T1"].message_date)
    /\ threads["T2"].result.is_new_day
    /\ ~threads["T1"].result.is_new_day

\* C20: a record call that fails, or a crash, between the insert of the
\* Daily Post Record and the write of the Streak State row leaves the
\* database with both changes or neither. Until the call's transaction is
\* committed, and after a statement of it raised, the database is the one
\* that the call found; once it is committed the database holds the whole
\* outcome of the call; after a crash the store is the database. No
\* committed post of a countable date lacks its streak update: the pair has
\* a row with a counted day on or after that date.
C20_RecordAtomic ==
    /\ \A t \in RecordThreads :
           /\ threads[t].pc \in StatementPcs \cup {"commit"} =>
                  Committed = StoreOf(threads[t].expected.failed)
           /\ threads[t].pc = "release" =>
                  Committed = StoreOf(ExpectedOf(t))
    /\ (\A t \in Threads : ~threads[t].alive) => journal = NULL
    /\ \A p \in Committed.posts :
           /\ <<p[1], p[2]>> \in DOMAIN Committed.streaks
           /\ Countable(fromisoformat(p[3])) =>
                  LET row == Committed.streaks[<<p[1], p[2]>>]
                  IN  /\ row.last_counted_date # NULL
                      /\ fromisoformat(row.last_counted_date)
                             >= fromisoformat(p[3])
                      /\ row.current_streak >= 1

\* The process died after a thread had inserted the post of a countable date
\* and before it wrote the streak row: the post is not in the database.
C20_Witness ==
    \E t \in RecordThreads :
        /\ ~threads[t].alive
        /\ threads[t].pc = "update_streak"
        /\ threads[t].inserted = 1
        /\ Countable(threads[t].message_date)
        /\ <<threads[t].call.channel_id, threads[t].call.user_id,
             isoformat(threads[t].message_date)>> \notin posts

\* The threads that have made a query and have its answer.
AnsweredQueries ==
    {t \in Threads : /\ threads[t].pc = "done"
                     /\ threads[t].call.method \in {"get_user_streak",
                                                     "leaderboard"}}

\* C21: get_user_streak and leaderboard only ever return committed state:
\* the answer of a query is the one the database file gave at the moment of
\* its SELECT, whatever a record call was doing then.
C21_QueriesReadCommitted ==
    \A t \in AnsweredQueries : threads[t].result = threads[t].expected.committed

\* C22: no operation blocks for ever. A thread that has entered a method
\* comes out of it, whatever the other thread does: it gets the lock and
\* runs to its return or its exception. A thread that is outside a method,
\* or waiting for the lock, does not hold the lock, so every way out of a
\* method (a return from any branch of record_message, an exception) has
\* released it.
C22_NoOperationBlocks ==
    /\ [](\A t \in Threads :
            threads[t].pc \in {"idle", "acquire", "done"} => lock # t)
    /\ \A t \in Threads :
           (threads[t].pc \notin {"idle", "done"}) ~> (threads[t].pc = "done")

\* A statement of T1 raised inside the lock and T1 has left its method; T2,
\* which asked for the lock too, holds it.
C22_Witness ==
    /\ threads["T1"].pc = "done"
    /\ threads["T1"].result = Raised("OperationalError")
    /\ lock = "T2"
    /\ threads["T2"].pc \notin {"idle", "acquire", "done"}

\* A call whose argument is an invalid input: a record call with a
\* malformed timestamp, a set_tracking_mode call with a value that is
\* neither ALL nor LIMITED.
C23_InvalidInput(call) ==
    \/ /\ call.method = "record_message"
       /\ call.timestamp.kind = "malformed"
    \/ /\ call.method = "set_tracking_mode"
       /\ call.mode \notin {TRACKING_MODE_ALL, TRACKING_MODE_LIMITED}

\* C23: a call with an invalid input fails at once and leaves the store
\* untouched. The step that makes the call ends it with the error, changes
\* no table, and neither takes nor waits for the lock, whoever holds it; no
\* thread is ever inside the lock, or waiting for it, with such a call.
C23_InvalidInputFailsFast ==
    /\ [](\A t \in Threads :
            threads[t].pc \notin {"idle", "done"} =>
                ~C23_InvalidInput(threads[t].call))
    /\ [][ \A t \in Threads :
              (/\ threads[t].pc = "idle"
               /\ threads'[t].pc # "idle"
               /\ C23_InvalidInput(threads'[t].call))
              => /\ threads'[t].pc = "done"
                 /\ threads'[t].result = Raised("ValueError")
                 /\ Store' = Store
                 /\ journal' = journal
                 /\ lock' = lock ]_vars

\* T2 has made a record call with a malformed timestamp while T1 was inside
\* a transaction, and T2's call has ended; T1 is still inside.
C23_Witness ==
    /\ threads["T1"].pc = "update_streak"
    /\ lock = "T1"
    /\ threads["T2"].pc = "done"
    /\ C23_InvalidInput(threads["T2"].call)
    /\ threads["T2"].call.method = "record_message"

\* The /streak-tracking commands that thread t is running in this step.
C24_Command(t, actions) ==
    /\ threads[t].pc = "idle"
    /\ threads'[t].pc = "done"
    /\ "action" \in DOMAIN threads'[t].call
    /\ threads'[t].call.action \in actions

\* C24: after the command /streak-tracking reset (or all, any), whose reply
\* says that each channel must opt in, the tracked channel list is empty
\* and no channel is tracked.
C24_ResetRequiresOptIn ==
    [][ \A t \in Threads :
          C24_Command(t, {"reset", "all", "any"})
          => /\ threads'[t].result = Returned(REPLY_RESET)
             /\ tracked_channels_list' = <<>>
             /\ \A c \in Channels : ~is_channel_tracked(c)' ]_vars

\* C25: a record call returns a milestone message exactly when it brings
\* current_streak to a milestone length: then it is a new countable day
\* (is_new_day and counted_toward_streak) and the length it reports is the
\* new current_streak. A duplicate, off-day or out-of-order call returns no
\* message and leaves current_streak as it is, also when the stored
\* current_streak is a milestone length, so an arrival at a milestone is
\* announced by the one call that made it.
C25_MilestoneAnnouncedOnce ==
    \A d \in MilestoneDates :
        LET o == record_on_date(MilestonePair[1], MilestonePair[2], d)
            stored == streaks[MilestonePair].current_streak
            new == o.streaks[MilestonePair].current_streak
            advanced == o.result.is_new_day /\ o.result.counted_toward_streak
        IN  /\ o.result.milestone_message # NULL
                   <=> (new # stored /\ new \in MILESTONES)
            /\ o.result.milestone_message # NULL
                   => (advanced /\ o.result.streak_length = new)
            /\ ~advanced
                   => (o.result.milestone_message = NULL /\ new = stored)

\* The streak stands at the milestone 30, its last day a Friday before a
\* weekend off; a late message dated the Friday before the streak began, a
\* message on the Saturday and a second message on the last day each
\* return the length 30 and no milestone message.
C25_Witness ==
    LET last == fromisoformat(streaks[MilestonePair].last_counted_date)
        late == record_on_date(MilestonePair[1], MilestonePair[2], 1).result
        off == record_on_date(MilestonePair[1], MilestonePair[2], last + 1).result
        again == record_on_date(MilestonePair[1], MilestonePair[2], last).result
    IN  /\ streaks[MilestonePair].current_streak = 30
        /\ config.off_days = {5, 6}
        /\ late.is_new_day /\ ~late.counted_toward_streak
        /\ late.streak_length = 30 /\ late.milestone_message = NULL
        /\ off.is_new_day /\ ~off.counted_toward_streak
        /\ off.streak_length = 30 /\ off.milestone_message = NULL
        /\ ~again.is_new_day /\ again.counted_toward_streak
        /\ again.streak_length = 30 /\ again.milestone_message = NULL

\* C26: the bot records a message only for a tracked channel: whenever a
\* message handler runs record_message, the channel of its event is tracked
\* at that moment, whatever commands other handlers have run since the
\* handler checked.
C26_RecordsOnlyTrackedChannels ==
    [][ \A t \in Threads :
          (threads[t].pc = "record_message" /\ threads'[t].pc = "done")
          => is_channel_tracked(threads[t].call.channel) ]_vars

\* The scope name x is in the scope group g.
C27_InGroup(g, x) ==
    \/ /\ g.type = "list"
       /\ \E i \in DOMAIN g.items : g.items[i] = [type |-> "str", value |-> x]
    \/ /\ g.type = "str"
       /\ g.value = x

\* The scope name x is granted by a response: it is in one of its groups.
C27_Granted(response, x) ==
    /\ response.type = "dict"
    /\ IF response.scopes.type = "dict"
       THEN \/ C27_InGroup(response.scopes.channel, x)
            \/ C27_InGroup(response.scopes.group, x)
       ELSE C27_InGroup(response.scopes, x)

\* The text of the error for each set of missing scopes.
C27_ErrorText(missing) ==
    CASE missing = {"chat:write"} ->
             "Missing required Slack scopes: chat:write"
      [] missing = {"commands"} ->
             "Missing required Slack scopes: commands"
      [] missing = {"chat:write", "commands"} ->
             "Missing required Slack scopes: chat:write, commands"

\* C27: given a response, _verify_scopes raises RuntimeError exactly when a
\* required scope is in none of the response's scope groups, and the error
\* names the missing scopes; otherwise it returns, in particular when the
\* required scopes are spread over several groups.
C27_VerifyScopes ==
    \A t \in Threads :
        (/\ threads[t].pc = "done"
         /\ "response" \in DOMAIN threads[t].call
         /\ threads[t].call.response.type # "SlackApiError")
        => LET missing == {x \in threads[t].call.required :
                              ~C27_Granted(threads[t].call.response, x)}
           IN  IF missing = {}
               THEN threads[t].result = Returned(NULL)
               ELSE threads[t].result =
                        [ raised |-> "RuntimeError",
                          message |-> C27_ErrorText(missing) ]

\* The two required scopes were granted in different groups, one in a list
\* and one as a string, and the verification has returned.
C27_Witness ==
    /\ threads["T1"].pc = "done"
    /\ threads["T1"].call.required = {"chat:write", "commands"}
    /\ threads["T1"].call.response =
           [ type |-> "dict",
             scopes |-> [ type |-> "dict",
                          channel |-> [ type |-> "list",
                                        items |-> << [type |-> "int"],
                                                     [type |-> "str",
                                                      value |-> "commands"] >> ],
                          group |-> [type |-> "str", value |-> "chat:write"] ] ]
    /\ threads["T1"].result = Returned(NULL)

\* The off_days configurations that leave some weekday countable.
C28_OffDaySets == (SUBSET (0..6)) \ {0..6}

\* For every such configuration and every start, the skip-forward loop ends
\* on the earliest later date whose weekday is not an off-day, at most
\* seven days after start.
C28_LoopEnds ==
    \A off_days \in C28_OffDaySets, start \in Days \cup 0..6 :
        LET found == skip_off_days(start + 1, off_days)
        IN  /\ found \in (start + 1)..(start + 7)
            /\ weekday_of(found) \notin off_days
            /\ \A e \in (start + 1)..(found - 1) : weekday_of(e) \in off_days

\* C28: with all seven weekdays off every record call still returns: every
\* date is an off-day, so a call is a duplicate or an off-day post, never
\* one that computes the next required date; it counts nothing, and every
\* streak row stays at zero with no counted day. Under every other
\* configuration _next_required_date ends (C28_LoopEnds).
C28_AllOffDaysTerminates ==
    /\ C28_LoopEnds
    /\ config.off_days = 0..6 =>
           /\ \A p \in DOMAIN streaks :
                  streaks[p] = StreakRow(0, 0, NULL, NULL, NULL, NULL)
           /\ \A c \in Channels, u \in PolicyUsers, d \in CallDates :
                  LET o == record_on_date(c, u, d)
                  IN  /\ weekday_of(d) \in config.off_days
                      /\ ~o.result.counted_toward_streak
                      /\ o.result.is_new_day <=> ~HasPost(c, u, d)
                      /\ o.result.streak_length = 0
                      /\ o.result.milestone_message = NULL
                      /\ o.streaks[<<c, u>>] =
                             StreakRow(0, 0, NULL, NULL, NULL, NULL)

\* All seven weekdays are off, and a user has posted on three dates in a
\* channel: the row is still at zero.
C28_Witness ==
    /\ config.off_days = 0..6
    /\ \E c \in Channels, u \in PolicyUsers :
           /\ Cardinality(PostDates(posts, c, u)) = 3
           /\ streaks[<<c, u>>].current_streak = 0

\* The countable dates from one stored date to another, both included.
C29_CountableDates(start, end) ==
    {d \in fromisoformat(start)..fromisoformat(end) : Countable(d)}

\* A streak of the given length spans start..end: both ends are countable
\* dates, the length is the number of countable dates between them, and
\* the pair has a post on each.
C29_Spans(pair, length, start, end) ==
    /\ start # NULL
    /\ end # NULL
    /\ Countable(fromisoformat(start))
    /\ Countable(fromisoformat(end))
    /\ length = Cardinality(C29_CountableDates(start, end))
    /\ \A d \in C29_CountableDates(start, end) : HasPost(pair[1], pair[2], d)

\* C29: a row with current_streak >= 1 has countable streak_start_date and
\* last_counted_date, current_streak is the number of countable dates from
\* the one to the other, and the pair has a Daily Post Record on each of
\* them; likewise longest_streak and longest_streak_start..longest_streak_end.
C29_StreakSpanConsistent ==
    \A pair \in DOMAIN streaks :
        LET row == streaks[pair]
        IN  /\ row.current_streak >= 1 =>
                   C29_Spans(pair, row.current_streak,
                             row.streak_start_date, row.last_counted_date)
            /\ row.longest_streak >= 1 =>
                   C29_Spans(pair, row.longest_streak,
                             row.longest_streak_start, row.longest_streak_end)

\* A current streak of two that spans off-days, next to a longest streak
\* with a span of its own.
C29_Witness ==
    \E pair \in DOMAIN streaks :
        LET row == streaks[pair]
        IN  /\ row.current_streak >= 1
            /\ row.longest_streak = 2
            /\ fromisoformat(row.longest_streak_end)
                   - fromisoformat(row.longest_streak_start) > 1
            /\ row.longest_streak_start # row.streak_start_date
                   \/ row.current_streak = 2

\* The posts of a table that belong to other pairs than (c, u).
C30_PostsOfOthers(table, c, u) == {q \in table : <<q[1], q[2]>> # <<c, u>>}

\* The rows of a streaks table that belong to other pairs than (c, u).
C30_RowsOfOthers(table, c, u) ==
    [p \in DOMAIN table \ {<<c, u>>} |-> table[p]]

\* A store differs from the current one in the posts and the row of (c, u)
\* at most.
C30_RecordFrame(new, c, u) ==
    /\ C30_PostsOfOthers(new.posts, c, u) = C30_PostsOfOthers(posts, c, u)
    /\ C30_RowsOfOthers(new.streaks, c, u) = C30_RowsOfOthers(streaks, c, u)
    /\ new.tracking_mode = tracking_mode
    /\ new.tracked_channels = tracked_channels

\* A store has the posts and the streaks of the current one.
C30_TrackingFrame(new) ==
    /\ new.posts = posts
    /\ new.streaks = streaks

\* A step is a record call for (c, u) that changes the store: such a call
\* has inserted the post of its local date.
C30_Recorded(c, u) ==
    \E q \in posts' \ posts :
        /\ <<q[1], q[2]>> = <<c, u>>
        /\ \E ts \in Timestamps :
               /\ ts.kind # "malformed"
               /\ isoformat(local_date(ts.secs, config.timezone)) = q[3]
               /\ record_message(c, u, ts)

\* C30: a step that is a record call for (c, u) changes no post and no
\* streak row of another pair, nor the tracking mode, nor the tracked set; a
\* step that is set_tracking_mode, enable_channel, disable_channel or
\* reset_channel_tracking changes no post and no streak row.
C30_FrameIndependence ==
    [][ /\ \A c \in Channels, u \in Users :
               C30_Recorded(c, u) => C30_RecordFrame(Store', c, u)
        /\ ( \/ \E mode \in ModeInputs : set_tracking_mode(mode)
             \/ \E c \in Channels : enable_channel(c) \/ disable_channel(c)
             \/ reset_channel_tracking ) =>
                   C30_TrackingFrame(Store')
      ]_vars

\* Both users have a streak in the same channel and a post in the other,
\* tracking is restricted, and one more counted day of the first user
\* changes its row.
C30_Witness ==
    /\ tracking_mode = TRACKING_MODE_LIMITED
    /\ tracked_channels # {}
    /\ \E c \in Channels :
           /\ \A u \in Users :
                  /\ HasRow(c, u)
                  /\ streaks[<<c, u>>].current_streak >= 1
           /\ \E u \in Users, ts \in Timestamps :
                  /\ <<c, u>> \in DOMAIN record_message_outcome(c, u, ts).streaks
                  /\ record_message_outcome(c, u, ts).streaks[<<c, u>>]
                         # streaks[<<c, u>>]

\* A step creates or rewrites the streaks row of a pair.
C31_RowChanged(pair) ==
    /\ pair \in DOMAIN streaks'
    /\ pair \in DOMAIN streaks => streaks'[pair] # streaks[pair]

\* A step leaves last_counted_date of a pair a date, later than the date it
\* held before if it held one.
C31_MovedForward(pair) ==
    /\ streaks'[pair].last_counted_date # NULL
    /\ HasCountedDay(pair[1], pair[2]) =>
           fromisoformat(streaks'[pair].last_counted_date)
               > LastCounted(pair[1], pair[2])

\* A step creates the row of a pair with no counted day.
C31_CreatedUncounted(pair) ==
    /\ pair \notin DOMAIN streaks
    /\ streaks'[pair].last_counted_date = NULL

\* A record call on a new countable date is classified out of order (line
\* 364, is_new_day and not counted_toward_streak) only for a date earlier
\* than last_counted_date.
C31_OutOfOrderIsEarlier ==
    \A c \in Channels, u \in PolicyUsers, d \in CallDates :
        ( /\ ~HasPost(c, u, d)
          /\ Countable(d)
          /\ HasCountedDay(c, u)
          /\ \/ is_out_of_order(d, next_required_date(LastCounted(c, u)))
             \/ ~record_on_date(c, u, d).result.counted_toward_streak )
        => d < LastCounted(c, u)

C32_ReturnedLengthIsStored ==
    /\ \A c \in Channels, u \in PolicyUsers :
           HasRow(c, u) <=> PostDates(posts, c, u) # {}
    /\ \A c \in Channels, u \in PolicyUsers, d \in CallDates :
           LET o == record_on_date(c, u, d)
           IN  /\ <<c, u, isoformat(d)>> \in o.posts
               /\ <<c, u>> \in DOMAIN o.streaks
               /\ o.result.streak_length = o.streaks[<<c, u>>].current_streak

\* One channel holds a streak of two, the other a row at zero made by a
\* post on an off-day; a further call can be a duplicate, an off-day post
\* or a counted day.
C32_Witness ==
    \E c1 \in Channels, c2 \in Channels, u \in PolicyUsers :
        /\ HasRow(c1, u)
        /\ HasRow(c2, u)
        /\ streaks[<<c1, u>>].current_streak = 2
        /\ streaks[<<c2, u>>].current_streak = 0
        /\ PostDates(posts, c2, u) # {}
        /\ \E d \in CallDates : record_on_date(c1, u, d).result.streak_length = 2

\* A row is at zero exactly when it has neither a start nor a counted day.
C33_ZeroIffNoDates ==
    \A pair \in DOMAIN streaks :
        LET row == streaks[pair]
        IN  /\ row.current_streak = 0 <=>
                   (row.streak_start_date = NULL /\ row.last_counted_date = NULL)
            /\ row.streak_start_date = NULL <=> row.last_counted_date = NULL

\* C33: current_streak is 0 exactly when streak_start_date and
\* last_counted_date are both NULL, and no step (a record call or a change
\* of the tracking policy) takes a row with current_streak >= 1 back to 0,
\* removes it or nulls its dates: a missed day resets the streak to 1.
C33_StreakNeverReturnsToZero ==
    /\ []C33_ZeroIffNoDates
    /\ [][ \A pair \in DOMAIN streaks :
               streaks[pair].current_streak >= 1 =>
                   /\ pair \in DOMAIN streaks'
                   /\ streaks'[pair].current_streak >= 1
                   /\ streaks'[pair].streak_start_date # NULL
                   /\ streaks'[pair].last_counted_date # NULL ]_vars

\* In one channel a counted day was followed by a missed day and the streak
\* restarted at 1 on a later day; in the other the only post fell on an
\* off-day and the row is at zero without dates; tracking has been
\* restricted meanwhile.
C33_Witness ==
    /\ tracking_mode = TRACKING_MODE_LIMITED
    /\ \E c1 \in Channels, c2 \in Channels, u \in PolicyUsers :
           /\ HasCountedDay(c1, u)
           /\ HasRow(c2, u)
           /\ streaks[<<c1, u>>].current_streak = 1
           /\ streaks[<<c1, u>>].streak_start_date
                  = streaks[<<c1, u>>].last_counted_date
           /\ \E d \in PostDates(posts, c1, u) :
                  /\ Countable(d)
                  /\ next_required_date(d) < LastCounted(c1, u)
           /\ streaks[<<c2, u>>].current_streak = 0
           /\ streaks[<<c2, u>>].last_counted_date = NULL

\* The first words that run disable_channel.
C34_DisableActions == {"disable", "off", "stop"}

\* is_channel_tracked(c) in the store an outcome leaves.
C34_TrackedAfter(outcome, c) ==
    \/ outcome.tracking_mode = TRACKING_MODE_ALL
    \/ c \in outcome.tracked_channels

\* disable_channel(c) called in the current state: in mode ALL it returns
\* false and leaves c tracked; it leaves c untracked exactly in mode
\* LIMITED.
C34_DisableByMode ==
    \A c \in Channels :
        LET o == disable_channel_outcome(c)
        IN  /\ tracking_mode = TRACKING_MODE_ALL =>
                   /\ o.result = Returned(FALSE)
                   /\ C34_TrackedAfter(o, c)
            /\ ~C34_TrackedAfter(o, c) <=> tracking_mode = TRACKING_MODE_LIMITED

\* C34: while tracking_mode is ALL, disable_channel(c) returns false and c
\* stays tracked; disable_channel(c) leaves is_channel_tracked(c) false only
\* in mode LIMITED; the bot answers a false return with "already disabled",
\* also when the channel is tracked after the command.
C34_DisableInModeAll ==
    /\ []C34_DisableByMode
    /\ [][ \A t \in Threads :
               C24_Command(t, C34_DisableActions) =>
                   \A c \in Channels :
                       c = threads'[t].call.channel_id =>
                           /\ threads'[t].result
                                  = Returned(REPLY_ALREADY_DISABLED)
                               <=> c \notin tracked_channels
                           /\ tracking_mode = TRACKING_MODE_ALL =>
                                  /\ threads'[t].result
                                         = Returned(REPLY_ALREADY_DISABLED)
                                  /\ is_channel_tracked(c)'
                           /\ ~is_channel_tracked(c)'
                                  <=> tracking_mode = TRACKING_MODE_LIMITED
      ]_vars

\* A disable command was answered "already disabled" in a channel that is
\* tracked, and a message of that channel has been recorded.
C34_Witness ==
    \E t \in Threads :
        /\ threads[t].pc = "done"
        /\ "action" \in DOMAIN threads[t].call
        /\ threads[t].call.action \in C34_DisableActions
        /\ threads[t].result = Returned(REPLY_ALREADY_DISABLED)
        /\ is_channel_tracked(threads[t].call.channel_id)
        /\ \E q \in posts : q[1] = threads[t].call.channel_id

====
